---- MODULE Spec2Model ----
(***************************************************************************)
(* Model of the answer-scoring pipeline of manvip28/Evaluator:             *)
(*   bloom_utils.classify_bloom, answer_evaluator.keyword_coverage_score   *)
(*   and answer_evaluator.evaluate_answer, and of the two batch drivers    *)
(*   answer_evaluator.evaluate_from_json_files and evaluate.evaluate;      *)
(*   then of what surrounds them: the import that starts evaluate.py,      *)
(*   evaluate.evaluate_single_question, the keyword line of                *)
(*   evaluate.generate_detailed_explanation, report_generator's            *)
(*   generate_full_report and extractors.identify_questions.               *)
(*                                                                         *)
(* Numbers.  A Python float in [-1,1] is modelled by an exact integer      *)
(* count of units, ONE units making 1.0.  ONE is a multiple of 10^6 and of *)
(* every keyword-list length that occurs, so that the provider samples     *)
(* (five decimals), the coverage matches/len, the penalties and the        *)
(* weighted sum are all exact.  round(x, 4) and pow(x, 0.8) are computed   *)
(* on the exact value (round half to even; the fifth root by exact         *)
(* comparison of big integers).  The doubles within a few units in the     *)
(* last place of 1.0, which no such count represents, are modelled apart   *)
(* (pow_near_one).                                                         *)
(*                                                                         *)
(* Batches.  A loaded JSON object is a function from its keys; each driver *)
(* is a loop taken one question per step, with what the libraries do for   *)
(* each question given with the batch.  A path leads to no file, to a file *)
(* that is not JSON or to an object.  Percentages are counts of tenths.    *)
(*                                                                         *)
(* Each part has its own variable and its own specification; the parts do  *)
(* not interact.                                                           *)
(*                                                                         *)
(* Text.  A Python str is a TLA+ string; its characters are read with      *)
(* SubSeq.  str.lower, str.strip, str.split, the `in` substring test and   *)
(* re.search with \b are modelled character by character.                  *)
(***************************************************************************)
EXTENDS Integers, Sequences, FiniteSets, TLC

(***************************************************************************)
(* Bounds of the model                                                     *)
(***************************************************************************)
\* longest keyword list handed to evaluate_answer
MaxKeywords == 2
\* image_score is drawn from {0, 1/ImageSteps, ..., 1}
ImageSteps == 1
\* keywords appended to the text after a call of keyword_coverage_score
MaxInject == 1
\* the weighted sums the curve is applied to: k / CurveSteps, k = -2..CurveSteps+2
CurveSteps == 16
\* and the doubles 1 - k * 2^-53 just below 1.0, k = 1..MaxUlps
MaxUlps == 4
\* calls of classify_bloom and evaluate_answer made one after another
MaxCalls == 3
\* question ids of a batch
MaxQuestions == 2
\* expected keywords of an answer key whose explanation is generated
MaxTerms == 6
\* the most lines the recognition returns for a page
MaxLines == 3

(***************************************************************************)
(* Numbers                                                                 *)
(***************************************************************************)
\* round(x, 4): the number of decimals every reported value is rounded to
NDIGITS == 4

RECURSIVE Pow10(_)
Pow10(n) == IF n = 0 THEN 1 ELSE 10 * Pow10(n - 1)

\* 10^NDIGITS: a reported value r stands for r / Quantum
Quantum == Pow10(NDIGITS)

RECURSIVE GCD(_, _)
GCD(a, b) == IF b = 0 THEN a ELSE GCD(b, a % b)

LCM(a, b) == (a \div GCD(a, b)) * b

RECURSIVE LCMUpTo(_)
LCMUpTo(n) == IF n <= 1 THEN 1 ELSE LCM(n, LCMUpTo(n - 1))

\* the least common multiple of the keyword-list lengths
KwDen == LCMUpTo(MaxKeywords)

\* the integer that stands for 1.0
ONE == 100 * Quantum * KwDen

\* the integer that stands for the decimal fraction n / 10^digits
Dec(n, digits) == n * (ONE \div Pow10(digits))

Abs(x) == IF x < 0 THEN -x ELSE x

\* Python min and max on two numbers
min(a, b) == IF b < a THEN b ELSE a
max(a, b) == IF b > a THEN b ELSE a

\* round(x, NDIGITS) of the exact value x / ONE, as a count of 1/Quantum;
\* ties go to the even neighbour
RoundN(x) ==
    LET step == ONE \div Quantum
        a == Abs(x)
        q == a \div step
        r == a % step
        up == IF 2 * r > step THEN 1
              ELSE IF 2 * r < step THEN 0
              ELSE q % 2
    IN  IF x < 0 THEN -(q + up) ELSE q + up

(***************************************************************************)
(* Big naturals: little-endian sequences of digits in base Quantum, used   *)
(* only to compare fifth powers exactly.                                   *)
(***************************************************************************)
RECURSIVE BigOfInt(_)
BigOfInt(n) == IF n < Quantum THEN <<n>>
               ELSE <<n % Quantum>> \o BigOfInt(n \div Quantum)

RECURSIVE BigMulCarry(_, _, _)
BigMulCarry(a, k, c) ==
    IF a = <<>> THEN (IF c = 0 THEN <<>> ELSE BigOfInt(c))
    ELSE LET t == Head(a) * k + c
         IN  <<t % Quantum>> \o BigMulCarry(Tail(a), k, t \div Quantum)

RECURSIVE BigAddCarry(_, _, _)
BigAddCarry(a, b, c) ==
    IF a = <<>> /\ b = <<>> THEN (IF c = 0 THEN <<>> ELSE <<c>>)
    ELSE LET x == IF a = <<>> THEN 0 ELSE Head(a)
             y == IF b = <<>> THEN 0 ELSE Head(b)
             t == x + y + c
         IN  <<t % Quantum>> \o
             BigAddCarry(IF a = <<>> THEN a ELSE Tail(a),
                         IF b = <<>> THEN b ELSE Tail(b), t \div Quantum)

\* a * k for a big natural a > 0 and an integer k > 0 (a digit times a factor
\* below 10 * Quantum, plus a carry, is still a machine integer)
RECURSIVE BigMul(_, _)
BigMul(a, k) ==
    IF k < 10 * Quantum THEN BigMulCarry(a, k, 0)
    ELSE BigAddCarry(BigMulCarry(a, k % Quantum, 0),
                     <<0>> \o BigMul(a, k \div Quantum), 0)

RECURSIVE BigPow(_, _)
BigPow(k, n) == IF n = 0 THEN <<1>> ELSE BigMul(BigPow(k, n - 1), k)

\* a * k^n
RECURSIVE BigMulPow(_, _, _)
BigMulPow(a, k, n) == IF n = 0 THEN a ELSE BigMulPow(BigMul(a, k), k, n - 1)

RECURSIVE BigLeqFrom(_, _, _)
BigLeqFrom(a, b, i) ==
    IF i = 0 THEN TRUE
    ELSE IF a[i] # b[i] THEN a[i] < b[i]
    ELSE BigLeqFrom(a, b, i - 1)

\* a <= b, for big naturals without leading zero digits
BigLeq(a, b) ==
    IF Len(a) # Len(b) THEN Len(a) < Len(b) ELSE BigLeqFrom(a, b, Len(a))

(***************************************************************************)
(* pow(x, 0.8), read as the fifth root of the fourth power                 *)
(***************************************************************************)
\* the exponent 0.8 of the grading curve, as CurveNum / CurveDen
CurveNum == 4
CurveDen == 5

\* y - 1/2 <= Quantum * (n/d)^(CurveNum/CurveDen) for y >= 1 and n, d >= 1, that
\* is (2y-1)^CurveDen * d^CurveNum <= rhs, where rhs = (2*Quantum)^CurveDen * n^CurveNum
PowAtLeast(y, rhs, d) ==
    BigLeq(BigMulPow(BigPow(2 * y - 1, CurveDen), d, CurveNum), rhs)

\* the largest y in lo..hi with PowAtLeast(y, rhs, d), knowing it holds at lo
RECURSIVE PowSearch(_, _, _, _)
PowSearch(lo, hi, rhs, d) ==
    IF lo = hi THEN lo
    ELSE LET mid == (lo + hi + 1) \div 2
         IN  IF PowAtLeast(mid, rhs, d) THEN PowSearch(mid, hi, rhs, d)
             ELSE PowSearch(lo, mid - 1, rhs, d)

\* pow_rounded with the curve left out
pow_identity(x) == RoundN(x)

\* round(pow(x / ONE, 0.8), NDIGITS) for 0 <= x <= ONE, as a count of 1/Quantum.
\* (The exact power is never half-way between two neighbours: 2*Quantum is no
\* fourth power of a rational, so nearest is well defined.)
pow_rounded(x) ==
    IF x = 0 THEN 0
    ELSE LET g == GCD(x, ONE)
             rhs == BigMulPow(BigPow(2 * Quantum, CurveDen), x \div g, CurveNum)
         IN  PowSearch(0, Quantum, rhs, ONE \div g)

\* pow(x, 0.8) for the double x = 1 - k * 2^-53 (k small): the exact power is
\* 1 - (4k/5) * 2^-53 less a term of order 2^-106, and pow returns the double
\* nearest to it, 1 - j * 2^-53 with j the integer nearest to 4k/5 (never a
\* tie).  The result is j.
pow_near_one(k) == (2 * CurveNum * k + CurveDen) \div (2 * CurveDen)

(***************************************************************************)
(* Text                                                                    *)
(***************************************************************************)
UpperCase == "ABCDEFGHIJKLMNOPQRSTUVWXYZ"
LowerCase == "abcdefghijklmnopqrstuvwxyz"
Digits == "0123456789"

\* the i-th character of s, as a one-character string
Char(s, i) == SubSeq(s, i, i)

IsIn(c, alphabet) == \E i \in 1..Len(alphabet) : Char(alphabet, i) = c

\* \w of the regular expressions
IsWordChar(c) == IsIn(c, LowerCase) \/ IsIn(c, UpperCase) \/ IsIn(c, Digits) \/ c = "_"

\* the whitespace of str.strip and str.split
IsSpace(c) == c \in {" ", "\t", "\n"}

LowerChar(c) ==
    IF IsIn(c, UpperCase)
    THEN Char(LowerCase, CHOOSE i \in 1..Len(UpperCase) : Char(UpperCase, i) = c)
    ELSE c

\* str.lower(), one character at a time (the string is halved to keep the
\* recursion shallow)
RECURSIVE lower(_)
lower(s) == IF Len(s) = 0 THEN s
            ELSE IF Len(s) = 1 THEN LowerChar(s)
            ELSE lower(SubSeq(s, 1, Len(s) \div 2))
                 \o lower(SubSeq(s, Len(s) \div 2 + 1, Len(s)))

\* bool(s.strip()): some character of s is not whitespace
IsBlank(s) == \A i \in 1..Len(s) : IsSpace(Char(s, i))

\* len(s.split()): the number of maximal runs of non-whitespace characters
WordCount(s) ==
    Cardinality({i \in 1..Len(s) :
                    /\ ~IsSpace(Char(s, i))
                    /\ (i = 1 \/ IsSpace(Char(s, i - 1)))})

\* sub in s, for Python strings
Contains(s, sub) ==
    \E i \in 1..(Len(s) - Len(sub) + 1) : SubSeq(s, i, i + Len(sub) - 1) = sub

\* \b between character p-1 and character p of s (p in 1..Len(s)+1)
WordBoundary(s, p) ==
    LET before == p > 1 /\ IsWordChar(Char(s, p - 1))
        after  == p <= Len(s) /\ IsWordChar(Char(s, p))
    IN  before # after

\* re.search(r'\b(c1|c2|...)\b', s) finds a match, cues being the alternatives
SearchCue(cues, s) ==
    \E c \in cues :
        \E i \in 1..(Len(s) - Len(c) + 1) :
            /\ SubSeq(s, i, i + Len(c) - 1) = c
            /\ WordBoundary(s, i)
            /\ WordBoundary(s, i + Len(c))

(***************************************************************************)
(* Optional values: Python None is <<>>, a value v is <<v>>                *)
(***************************************************************************)
None == <<>>
Some(v) == <<v>>
IsNone(o) == o = <<>>
Get(o) == o[1]

(***************************************************************************)
(* bloom_utils.classify_bloom                                              *)
(***************************************************************************)
bloom_hierarchy ==
    <<"Remember", "Understand", "Apply", "Analyze", "Evaluate", "Create">>

\* bloom_hierarchy.index(level), counted from 1; level must be in the list
index(level) == CHOOSE i \in 1..Len(bloom_hierarchy) : bloom_hierarchy[i] = level

InHierarchy(level) == \E i \in 1..Len(bloom_hierarchy) : bloom_hierarchy[i] = level

\* the alternatives of the six question patterns, in the order they are tried
question_cues ==
    << {"define", "list", "name", "identify", "recall", "state",
        "who", "what", "when", "where"},
       {"explain", "describe", "compare", "contrast", "summarize",
        "interpret", "paraphrase"},
       {"apply", "use", "demonstrate", "illustrate", "solve", "implement",
        "design"},
       {"analyze", "differentiate", "organize", "attribute", "distinguish",
        "examine"},
       {"evaluate", "assess", "critique", "judge", "justify", "recommend"},
       {"create", "design", "construct", "plan", "produce", "develop",
        "formulate"} >>

\* the alternatives of the six answer patterns, in the order they are tried
answer_cues ==
    << {"is", "are", "was", "were", "means"},
       {"because", "since", "as", "consists of", "includes"},
       {"can be used to", "applied", "implemented", "designed", "built"},
       {"compared to", "differs from", "analysis", "relationship",
        "impact of", "effect of"},
       {"better", "worse", "more effective", "less efficient", "advantages",
        "disadvantages", "pros", "cons"},
       {"new", "novel", "innovative", "created", "designed", "developed",
        "proposed"} >>

\* the answer must have fewer words than this to be classified Remember
RememberMaxWords == 20

\* question_level with the Analyze pattern tried first
question_level_reordered(question) ==
    IF SearchCue(question_cues[4], question) THEN Some("Analyze")
    ELSE IF SearchCue(question_cues[1], question) THEN Some("Remember")
    ELSE IF SearchCue(question_cues[2], question) THEN Some("Understand")
    ELSE IF SearchCue(question_cues[3], question) THEN Some("Apply")
    ELSE IF SearchCue(question_cues[5], question) THEN Some("Evaluate")
    ELSE IF SearchCue(question_cues[6], question) THEN Some("Create")
    ELSE None

\* the if/elif chain over the question; question is already lower-cased
question_level(question) ==
    IF SearchCue(question_cues[1], question) THEN Some("Remember")
    ELSE IF SearchCue(question_cues[2], question) THEN Some("Understand")
    ELSE IF SearchCue(question_cues[3], question) THEN Some("Apply")
    ELSE IF SearchCue(question_cues[4], question) THEN Some("Analyze")
    ELSE IF SearchCue(question_cues[5], question) THEN Some("Evaluate")
    ELSE IF SearchCue(question_cues[6], question) THEN Some("Create")
    ELSE None

\* answer_level with the length test of the Remember tier left out
answer_level_no_length(answer) ==
    IF SearchCue(answer_cues[1], answer) THEN Some("Remember")
    ELSE IF SearchCue(answer_cues[2], answer) THEN Some("Understand")
    ELSE IF SearchCue(answer_cues[3], answer) THEN Some("Apply")
    ELSE IF SearchCue(answer_cues[4], answer) THEN Some("Analyze")
    ELSE IF SearchCue(answer_cues[5], answer) THEN Some("Evaluate")
    ELSE IF SearchCue(answer_cues[6], answer) THEN Some("Create")
    ELSE Some("Understand")

\* the if/elif chain over the answer; answer is already lower-cased
answer_level(answer) ==
    IF SearchCue(answer_cues[1], answer) /\ WordCount(answer) < RememberMaxWords
    THEN Some("Remember")
    ELSE IF SearchCue(answer_cues[2], answer) THEN Some("Understand")
    ELSE IF SearchCue(answer_cues[3], answer) THEN Some("Apply")
    ELSE IF SearchCue(answer_cues[4], answer) THEN Some("Analyze")
    ELSE IF SearchCue(answer_cues[5], answer) THEN Some("Evaluate")
    ELSE IF SearchCue(answer_cues[6], answer) THEN Some("Create")
    ELSE Some("Understand")

\* resolve_level with the answer's level preferred whenever there is one
resolve_level_answer_first(q_level, a_level) ==
    IF ~IsNone(a_level) THEN Get(a_level)
    ELSE IF ~IsNone(q_level) THEN Get(q_level)
    ELSE "Understand"

\* resolve_level falling back to the default when the answer's level is above
\* the question's
resolve_level_default_when_above(q_level, a_level) ==
    IF ~IsNone(q_level) /\ ~IsNone(a_level)
    THEN (IF index(Get(q_level)) >= index(Get(a_level)) THEN Get(q_level)
          ELSE "Understand")
    ELSE IF ~IsNone(a_level) THEN Get(a_level)
    ELSE IF ~IsNone(q_level) THEN Get(q_level)
    ELSE "Understand"

\* "Resolve final Bloom level": a level is truthy when it is not None
\* (no level is the empty string)
resolve_level(q_level, a_level) ==
    IF ~IsNone(q_level) /\ ~IsNone(a_level)
    THEN bloom_hierarchy[max(index(Get(q_level)), index(Get(a_level)))]
    ELSE IF ~IsNone(a_level) THEN Get(a_level)
    ELSE IF ~IsNone(q_level) THEN Get(q_level)
    ELSE "Understand"

classify_bloom(question, answer) ==
    resolve_level(question_level(lower(question)), answer_level(lower(answer)))

(***************************************************************************)
(* answer_evaluator.keyword_coverage_score                                 *)
(***************************************************************************)
\* truth value of an optional string or list: None and the empty one are falsy
Truthy(o) == ~IsNone(o) /\ Len(Get(o)) > 0

\* keyword_matches with each keyword compared in its own case
keyword_matches_case_sensitive(student_text, kws) ==
    Cardinality({i \in 1..Len(kws) : Contains(student_text, kws[i])})

\* keyword_matches with a keyword matched between word boundaries only
keyword_matches_whole_word(student_text, kws) ==
    Cardinality({i \in 1..Len(kws) :
                    SearchCue({lower(kws[i])}, lower(student_text))})

\* keyword_matches with a keyword matched only by a text that is the keyword
keyword_matches_exact(student_text, kws) ==
    Cardinality({i \in 1..Len(kws) : lower(student_text) = lower(kws[i])})

\* sum(1 for keyword in reference_keywords
\*     if keyword.lower() in student_text.lower()): one per list entry
keyword_matches(student_text, kws) ==
    Cardinality({i \in 1..Len(kws) :
                    Contains(lower(student_text), lower(kws[i]))})

\* reference_keywords is None or a list of strings
keyword_coverage_score(student_text, reference_keywords) ==
    IF ~Truthy(reference_keywords) THEN ONE
    ELSE LET kws == Get(reference_keywords)
             matches == keyword_matches(student_text, kws)
         IN  (matches * ONE) \div Len(kws)

(***************************************************************************)
(* answer_evaluator.evaluate_answer                                        *)
(***************************************************************************)
\* the weights of the weighted sum, in tenths
alpha == 4
beta == 2
gamma == 3
delta == 1
epsilon == 1

\* w tenths of x
Tenths(w, x) == (w * x) \div 10

\* the penalties, in hundredths: per level short, the cap, the flat bonus
PenaltyPerLevel == 5
PenaltyCap == 15
PenaltyBonus == 2

\* coverage used by evaluate_answer when keywords is falsy, in tenths
NoKeywordsCoverage == 5

\* bloom_penalty with the bonus scaled by the overshoot, like the penalty
bloom_penalty_scaled_bonus(bloom_gt, classified) ==
    LET bloom_diff == index(bloom_gt) - index(classified)
    IN  IF bloom_diff = 0 THEN 0
        ELSE IF bloom_diff > 0
             THEN min(Dec(PenaltyPerLevel, 2) * bloom_diff, Dec(PenaltyCap, 2))
             ELSE Dec(PenaltyBonus, 2) * bloom_diff

\* "Bloom's taxonomy penalty", reached with bloom_gt truthy and in the list
bloom_penalty(bloom_gt, classified) ==
    LET bloom_diff == index(bloom_gt) - index(classified)
    IN  IF bloom_diff = 0 THEN 0
        ELSE IF bloom_diff > 0
             THEN min(Dec(PenaltyPerLevel, 2) * bloom_diff, Dec(PenaltyCap, 2))
             ELSE -Dec(PenaltyBonus, 2)

\* clamp with the upper limit forgotten
clamp_no_upper(x) == max(x, 0)

\* final_score = min(max(final_score, 0.0), 1.0)
clamp(x) == min(max(x, 0), ONE)

\* bloom_gt or "Understand"
bloom_expected(bloom_gt) == IF Truthy(bloom_gt) THEN Get(bloom_gt) ELSE "Understand"

\* round(image_score, 4) if image_score is not None else None
image_similarity(image_score) ==
    IF IsNone(image_score) THEN None ELSE Some(RoundN(Get(image_score)))

Raise(exc, called) ==
    [kind |-> "raise", exc |-> exc, called |-> called]

\* empty_answer with the image similarity taken unweighted
empty_answer_unweighted(bloom_gt, image_score) ==
    LET final_score == IF ~IsNone(image_score) THEN Get(image_score) ELSE 0
    IN  [kind |-> "return", path |-> "empty", called |-> {},
         locals |-> [final_score |-> final_score, penalty |-> 0],
         value |-> [semantic_score |-> 0, bleu |-> 0, rouge_l |-> 0,
                    keyword_coverage |-> 0,
                    bloom_classified |-> "Remember",
                    bloom_expected |-> bloom_expected(bloom_gt),
                    bloom_penalty |-> 0,
                    image_similarity |-> image_similarity(image_score),
                    raw_score |-> RoundN(final_score),
                    final_score |-> pow_rounded(final_score)]]

\* the branch taken for an empty or whitespace-only answer (lines 54-75)
empty_answer(bloom_gt, image_score) ==
    LET final_score == IF ~IsNone(image_score)
                       THEN Tenths(epsilon, Get(image_score)) ELSE 0
    IN  [kind |-> "return", path |-> "empty", called |-> {},
         locals |-> [final_score |-> final_score, penalty |-> 0],
         value |-> [semantic_score |-> 0, bleu |-> 0, rouge_l |-> 0,
                    keyword_coverage |-> 0,
                    bloom_classified |-> "Remember",
                    bloom_expected |-> bloom_expected(bloom_gt),
                    bloom_penalty |-> 0,
                    image_similarity |-> image_similarity(image_score),
                    raw_score |-> RoundN(final_score),
                    final_score |-> pow_rounded(final_score)]]

\* weighted_sum with the image term never added
weighted_sum_no_image(sem_score, bleu_score, rouge_score, kw_coverage, penalty, image_score) ==
    Tenths(alpha, sem_score) + Tenths(beta, (bleu_score + rouge_score) \div 2)
    + Tenths(gamma, kw_coverage) - Tenths(delta, penalty)

\* the weighted sum before it is clamped (lines 111-116)
weighted_sum(sem_score, bleu_score, rouge_score, kw_coverage, penalty, image_score) ==
    LET traditional_score == (bleu_score + rouge_score) \div 2
        text == Tenths(alpha, sem_score) + Tenths(beta, traditional_score)
                + Tenths(gamma, kw_coverage) - Tenths(delta, penalty)
    IN  IF ~IsNone(image_score) THEN text + Tenths(epsilon, Get(image_score))
        ELSE text

\* the text-based evaluation from the penalty on (lines 94-132)
score_text(sem_score, bleu_score, rouge_score, kw_coverage, classified, bloom_gt, image_score, called) ==
    IF Truthy(bloom_gt) /\ ~InHierarchy(Get(bloom_gt))
    THEN Raise("ValueError", called)
    ELSE LET penalty == IF Truthy(bloom_gt)
                        THEN bloom_penalty(Get(bloom_gt), classified) ELSE 0
             weighted == weighted_sum(sem_score, bleu_score, rouge_score,
                                      kw_coverage, penalty, image_score)
             final_score == clamp(weighted)
         IN  [kind |-> "return", path |-> "text", called |-> called,
              locals |-> [sem_score |-> sem_score, bleu_score |-> bleu_score,
                          rouge_score |-> rouge_score,
                          kw_coverage |-> kw_coverage, penalty |-> penalty,
                          weighted |-> weighted, final_score |-> final_score],
              value |-> [semantic_score |-> RoundN(sem_score),
                         bleu |-> RoundN(bleu_score),
                         rouge_l |-> RoundN(rouge_score),
                         keyword_coverage |-> RoundN(kw_coverage),
                         bloom_classified |-> classified,
                         bloom_expected |-> bloom_expected(bloom_gt),
                         bloom_penalty |-> RoundN(penalty),
                         image_similarity |-> image_similarity(image_score),
                         raw_score |-> RoundN(final_score),
                         final_score |-> pow_rounded(final_score)]]

\* kw_coverage = keyword_coverage_score(stu_answer, keywords) if keywords else 0.5
kw_coverage_of(stu_answer, keywords) ==
    IF Truthy(keywords) THEN keyword_coverage_score(stu_answer, keywords)
    ELSE Tenths(NoKeywordsCoverage, ONE)

\* the text-based evaluation (lines 77-132).  providers is what the external
\* libraries do when they are called for this pair of texts: sem, bleu and
\* rouge are each a value, or None for "raises"; only rouge is called inside
\* a try.
text_answer(gt_question, gt_answer, stu_answer, bloom_gt, keywords, image_score, providers) ==
    IF IsNone(providers.sem) THEN Raise("ProviderError", {"sbert"})
    ELSE IF IsNone(providers.bleu) THEN Raise("ProviderError", {"sbert", "bleu"})
    ELSE LET rouge_score == IF IsNone(providers.rouge) THEN 0
                            ELSE Get(providers.rouge)
             classified == classify_bloom(gt_question, stu_answer)
         IN  score_text(Get(providers.sem), Get(providers.bleu), rouge_score,
                        kw_coverage_of(stu_answer, keywords), classified,
                        bloom_gt, image_score,
                        {"sbert", "bleu", "rouge", "classify_bloom"})

\* evaluate_answer with the test of line 54 reduced to `not stu_answer`
evaluate_answer_no_strip(gt_question, gt_answer, stu_answer, bloom_gt, keywords, image_score, providers) ==
    IF Len(stu_answer) = 0
    THEN empty_answer(bloom_gt, image_score)
    ELSE text_answer(gt_question, gt_answer, stu_answer, bloom_gt, keywords,
                     image_score, providers)

\* evaluate_answer: the outcome is a returned record or a raised exception,
\* with the external calls made and the values of the locals
evaluate_answer(gt_question, gt_answer, stu_answer, bloom_gt, keywords, image_score, providers) ==
    IF Len(stu_answer) = 0 \/ IsBlank(stu_answer)
    THEN empty_answer(bloom_gt, image_score)
    ELSE text_answer(gt_question, gt_answer, stu_answer, bloom_gt, keywords,
                     image_score, providers)

(***************************************************************************)
(* The calls explored: the arguments and the provider behaviours           *)
(***************************************************************************)
Questions == {"What is ARM?"}

ReferenceAnswer ==
    "The ARM architecture includes components like the processor core, interrupt controller, memory controller..."

ArmAnswer ==
    "ARM includes the processor core, memory controller, interrupt controller and uses AHB and APB buses to connect peripherals."

\* two empty answers, and one answer for each level of the answer ladder
Answers ==
    {"", "  ",
     "ARM is a processor.",
     ArmAnswer,
     "The AHB bus can be used to connect peripherals.",
     "AHB differs from APB in speed.",
     "AHB has advantages over APB.",
     "We proposed a novel bus."}

\* bloom_gt: absent, each level, and a string outside the enumeration
BloomArgs ==
    {None, Some("Expert")} \cup {Some(bloom_hierarchy[i]) : i \in 1..Len(bloom_hierarchy)}

KeywordPool == <<"processor core", "peripheral", "Cache", "AHB">>

\* keywords: absent, or the first n keywords of the pool, n = 0..MaxKeywords
KeywordArgs ==
    {None} \cup {Some(SubSeq(KeywordPool, 1, n)) : n \in 0..MaxKeywords}

\* image_score: absent, or a similarity in [0,1]
ImageArgs ==
    {None} \cup {Some((i * ONE) \div ImageSteps) : i \in 0..ImageSteps}

\* what the three external libraries do for one call: a value, or None when
\* the library raises
ProviderRuns ==
    { [sem |-> Some(ONE), bleu |-> Some(ONE), rouge |-> Some(ONE)],
      [sem |-> Some(Dec(73219, 5)), bleu |-> Some(Dec(31416, 5)), rouge |-> Some(Dec(6, 1))],
      [sem |-> Some(-Dec(25, 2)), bleu |-> Some(0), rouge |-> Some(0)],
      [sem |-> Some(Dec(5, 1)), bleu |-> Some(Dec(2, 1)), rouge |-> None],
      [sem |-> None, bleu |-> Some(0), rouge |-> Some(0)],
      [sem |-> Some(Dec(5, 1)), bleu |-> None, rouge |-> Some(0)] }

\* the questions and answers classify_bloom is explored on
BloomQuestions ==
    {"", "Discuss ARM.", "What is ARM?", "DEFINE ARM", "Undefined behaviour",
     "Explain the architecture of ARM processor.",
     "Define and analyze the ARM bus.",
     "Implement a stack.", "Design a cache.", "Examine the AHB bus.",
     "Justify the use of APB.", "Justify your choice.",
     "Construct a timing diagram."}

\* nineteen words, the second a Remember cue
Words19 ==
    "ARM is a processor family that many phones and tablets and watches and cars and routers and printers use."

\* twenty words, the second a Remember cue, and no other cue
Words20 ==
    "ARM is a processor family that many phones and tablets and watches and cars and routers and printers use today."

\* twenty-six words, with a Remember cue and an Evaluate cue
Words26 ==
    "ARM is a processor family that many phones and tablets and watches and cars and routers and printers use every single day and it is better."

BloomAnswers ==
    Answers \cup
    {Words19, Words20, Words26,
     "It was designed for speed.", "A bus designed for speed.",
     "Buses connect things.", "This has basis."}

(***************************************************************************)
(* State: the last call of evaluate_answer and of classify_bloom, each     *)
(* with its outcome.  Neither function keeps anything between calls.       *)
(***************************************************************************)
VARIABLES
    args,       \* the arguments of the last call of evaluate_answer
    providers,  \* what the external libraries do for that call
    outcome,    \* what the call did: the returned record or the exception
    bloom,      \* the last call of classify_bloom: arguments, locals, result
    coverage,   \* the last call of keyword_coverage_score, and the one before
    curve,      \* the last two applications of the clamp and the curve
    repeat,     \* a sequence of calls, each with its result
    batch,      \* a run of a batch driver: inputs, loop state, result
    startup,    \* a start of evaluate.py: the directory, the import under way
    single,     \* the last call of evaluate_single_question
    report,     \* the last run of generate_full_report on a results file
    explain,    \* the last keyword line of generate_detailed_explanation
    cue,        \* the last text classified by one ladder of classify_bloom
    extract     \* a call of identify_questions: lines, loop state, result

vars == <<args, providers, outcome, bloom, coverage, curve, repeat, batch,
          startup, single, report, explain, cue, extract>>

NoArgs == [gt_question |-> "", gt_answer |-> "", stu_answer |-> "",
           bloom_gt |-> None, keywords |-> None, image_score |-> None]

NoProviders == [sem |-> None, bleu |-> None, rouge |-> None]

Init ==
    /\ args = NoArgs
    /\ providers = NoProviders
    /\ outcome = [kind |-> "idle"]
    /\ bloom = [kind |-> "idle"]
    /\ coverage = [kind |-> "idle"]
    /\ curve = [kind |-> "idle"]
    /\ repeat = <<>>
    /\ batch = [kind |-> "idle"]
    /\ startup = [kind |-> "idle"]
    /\ single = [kind |-> "idle"]
    /\ report = [kind |-> "idle"]
    /\ explain = [kind |-> "idle"]
    /\ cue = [kind |-> "idle"]
    /\ extract = [kind |-> "idle"]

\* one call of evaluate_answer; nothing of an earlier call is read
EvaluateAnswer ==
    /\ outcome.kind = "idle"
    /\ \E q \in Questions, a \in Answers, b \in BloomArgs, k \in KeywordArgs, i \in ImageArgs, p \in ProviderRuns :
          /\ args' = [gt_question |-> q, gt_answer |-> ReferenceAnswer,
                      stu_answer |-> a, bloom_gt |-> b, keywords |-> k,
                      image_score |-> i]
          /\ providers' = p
          /\ outcome' = evaluate_answer(q, ReferenceAnswer, a, b, k, i, p)
    /\ UNCHANGED <<bloom, coverage, curve, repeat, batch,
                 startup, single, report, explain, cue, extract>>

\* the caller takes the outcome; the function keeps nothing of the call
Discard ==
    /\ outcome.kind # "idle"
    /\ args' = NoArgs
    /\ providers' = NoProviders
    /\ outcome' = [kind |-> "idle"]
    /\ UNCHANGED <<bloom, coverage, curve, repeat, batch,
                 startup, single, report, explain, cue, extract>>

Next == EvaluateAnswer \/ Discard

Spec == Init /\ [][Next]_vars

\* one call of classify_bloom, with the two levels it finds on the way
ClassifyBloom ==
    /\ bloom.kind = "idle"
    /\ \E q \in BloomQuestions, a \in BloomAnswers :
          bloom' = [kind |-> "return", question |-> q, answer |-> a,
                    question_level |-> question_level(lower(q)),
                    answer_level |-> answer_level(lower(a)),
                    level |-> classify_bloom(q, a)]
    /\ UNCHANGED <<args, providers, outcome, coverage, curve, repeat, batch,
                 startup, single, report, explain, cue, extract>>

DiscardBloom ==
    /\ bloom.kind # "idle"
    /\ bloom' = [kind |-> "idle"]
    /\ UNCHANGED <<args, providers, outcome, coverage, curve, repeat, batch,
                 startup, single, report, explain, cue, extract>>

NextBloom == ClassifyBloom \/ DiscardBloom

SpecBloom == Init /\ [][NextBloom]_vars

\* a second call of classify_bloom, on the same question and another answer,
\* by a caller who keeps the first result to compare
ClassifyOther ==
    /\ bloom.kind = "return"
    /\ \E a \in BloomAnswers :
          bloom' = [kind |-> "pair", first |-> bloom,
                    second |-> [kind |-> "return", question |-> bloom.question,
                                answer |-> a,
                                question_level |-> question_level(lower(bloom.question)),
                                answer_level |-> answer_level(lower(a)),
                                level |-> classify_bloom(bloom.question, a)]]
    /\ UNCHANGED <<args, providers, outcome, coverage, curve, repeat, batch,
                 startup, single, report, explain, cue, extract>>

NextBloomPair == ClassifyBloom \/ ClassifyOther \/ DiscardBloom

SpecBloomPair == Init /\ [][NextBloomPair]_vars

(***************************************************************************)
(* keyword_coverage_score called on its own                                *)
(***************************************************************************)
ArmKeywords ==
    <<"processor core", "interrupt controller", "memory controller", "peripheral", "AHB", "APB", "buses">>

\* texts: empty, the ARM candidate, a keyword in another case, a keyword inside
\* a longer word, a two-word keyword split by two spaces and in reverse order
CoverageTexts ==
    {"", ArmAnswer, "ahb", "The AHB bus", "processor  core", "core processor",
     "Peripherals use the cache."}

\* reference_keywords: absent, empty, one entry, a repeated entry, and longer
\* lists
CoverageKeywords ==
    {None, Some(<<>>), Some(<<"AHB">>), Some(<<"AHB", "AHB">>),
     Some(<<"processor core", "peripheral">>),
     Some(<<"Cache", "AHB", "APB">>), Some(ArmKeywords)}

\* one call of keyword_coverage_score
KeywordCoverage ==
    /\ coverage.kind = "idle"
    /\ \E t \in CoverageTexts, k \in CoverageKeywords :
          coverage' = [kind |-> "return", student_text |-> t,
                       reference_keywords |-> k,
                       value |-> keyword_coverage_score(t, k),
                       injected |-> 0, before |-> None]
    /\ UNCHANGED <<args, providers, outcome, bloom, curve, repeat, batch,
                 startup, single, report, explain, cue, extract>>

\* the same list again, on the text with one of the list's keywords appended
\* verbatim; the value of the call before is kept for comparison
InjectKeyword ==
    /\ coverage.kind = "return"
    /\ Truthy(coverage.reference_keywords)
    /\ coverage.injected < MaxInject
    /\ \E i \in 1..Len(Get(coverage.reference_keywords)) :
          LET t == coverage.student_text \o Get(coverage.reference_keywords)[i]
          IN  coverage' = [coverage EXCEPT
                              !.student_text = t,
                              !.value = keyword_coverage_score(t, coverage.reference_keywords),
                              !.injected = coverage.injected + 1,
                              !.before = Some(coverage.value)]
    /\ UNCHANGED <<args, providers, outcome, bloom, curve, repeat, batch,
                 startup, single, report, explain, cue, extract>>

DiscardCoverage ==
    /\ coverage.kind # "idle"
    /\ coverage' = [kind |-> "idle"]
    /\ UNCHANGED <<args, providers, outcome, bloom, curve, repeat, batch,
                 startup, single, report, explain, cue, extract>>

NextCoverage == KeywordCoverage \/ InjectKeyword \/ DiscardCoverage

SpecCoverage == Init /\ [][NextCoverage]_vars

(***************************************************************************)
(* The clamp and the curve of evaluate_answer on their own (lines 118-119  *)
(* and 130-131).  A weighted sum is units / ONE - ulps * 2^-53; ulps is 0   *)
(* except for the doubles just below 1.0, which the units cannot resolve.  *)
(***************************************************************************)
CurveInputs ==
    {[units |-> (k * ONE) \div CurveSteps, ulps |-> 0] : k \in (-2)..(CurveSteps + 2)}
    \cup {[units |-> u, ulps |-> 0] : u \in {1, ONE \div Quantum, ONE - 1}}
    \cup {[units |-> ONE, ulps |-> k] : k \in 1..MaxUlps}

\* final_score = min(max(final_score, 0.0), 1.0); curved_score =
\* pow(final_score, 0.8); the two values reported, rounded to 4 decimals.
\* curved_ulps is the unrounded curved_score where the model has it: the
\* number of steps 2^-53 it lies below 1.0.
curve_point(w) ==
    IF w.ulps > 0
    THEN [weighted |-> w, final_score |-> w,
          curved_ulps |-> Some(pow_near_one(w.ulps)),
          raw_score |-> Quantum, final |-> Quantum]
    ELSE LET final_score == clamp(w.units)
         IN  [weighted |-> w,
              final_score |-> [units |-> final_score, ulps |-> 0],
              curved_ulps |-> IF final_score = ONE THEN Some(0) ELSE None,
              raw_score |-> RoundN(final_score),
              final |-> pow_rounded(final_score)]

\* the curve applied to one weighted sum; the application before is kept
ApplyCurve ==
    /\ IF curve.kind = "idle" THEN TRUE ELSE IsNone(curve.prev)
    /\ \E w \in CurveInputs :
          curve' = [kind |-> "return", point |-> curve_point(w),
                    prev |-> IF curve.kind = "idle" THEN None
                             ELSE Some(curve.point)]
    /\ UNCHANGED <<args, providers, outcome, bloom, coverage, repeat, batch,
                 startup, single, report, explain, cue, extract>>

DiscardCurve ==
    /\ curve.kind # "idle"
    /\ curve' = [kind |-> "idle"]
    /\ UNCHANGED <<args, providers, outcome, bloom, coverage, repeat, batch,
                 startup, single, report, explain, cue, extract>>

NextCurve == ApplyCurve \/ DiscardCurve

SpecCurve == Init /\ [][NextCurve]_vars

(***************************************************************************)
(* Calls of classify_bloom and evaluate_answer made one after another by   *)
(* one process.  The module-level objects the two functions use            *)
(* (sbert_model, rouge, smoothie) are only read; what the libraries return *)
(* for a call is part of the call.                                         *)
(***************************************************************************)
BloomCalls ==
    {[fn |-> "classify_bloom", question |-> qa[1], answer |-> qa[2]] :
        qa \in {<<"What is ARM?", "ARM is a processor.">>,
                <<"Design a cache.", "Buses connect things.">>,
                <<"", "We proposed a novel bus.">>,
                <<"Justify your choice.", "">>}}

EvaluateCalls ==
    {[fn |-> "evaluate_answer",
      args |-> [gt_question |-> "What is ARM?", gt_answer |-> ReferenceAnswer,
                stu_answer |-> c[1], bloom_gt |-> c[2], keywords |-> c[3],
                image_score |-> c[4]],
      providers |-> c[5]] :
        c \in {<<"ARM is a processor.", Some("Apply"), Some(<<"processor core">>), None,
                 [sem |-> Some(Dec(73219, 5)), bleu |-> Some(Dec(31416, 5)), rouge |-> Some(Dec(6, 1))]>>,
               <<"We proposed a novel bus.", None, None, Some(ONE),
                 [sem |-> Some(Dec(5, 1)), bleu |-> Some(Dec(2, 1)), rouge |-> None]>>,
               <<"  ", Some("Create"), Some(<<"AHB">>), Some(ONE),
                 [sem |-> Some(ONE), bleu |-> Some(ONE), rouge |-> Some(ONE)]>>,
               <<"ARM is a processor.", None, None, None,
                 [sem |-> None, bleu |-> Some(0), rouge |-> Some(0)]>>}}

RepeatCalls == BloomCalls \cup EvaluateCalls

\* the function named by the call, applied to the call's arguments
call_value(c) ==
    IF c.fn = "classify_bloom"
    THEN [kind |-> "return", value |-> classify_bloom(c.question, c.answer)]
    ELSE evaluate_answer(c.args.gt_question, c.args.gt_answer, c.args.stu_answer,
                         c.args.bloom_gt, c.args.keywords, c.args.image_score,
                         c.providers)

\* run_call working on the arguments left by the call before of the same
\* function
run_call_one_late(c, earlier) ==
    IF earlier # <<>> /\ earlier[Len(earlier)].call.fn = c.fn
    THEN call_value(earlier[Len(earlier)].call)
    ELSE call_value(c)

\* what the call c does when made after the calls `earlier`: neither function
\* reads anything an earlier call wrote
run_call(c, earlier) == call_value(c)

\* one more call, of either function
CallAgain ==
    /\ Len(repeat) < MaxCalls
    /\ \E c \in RepeatCalls :
          repeat' = Append(repeat, [call |-> c, result |-> run_call(c, repeat)])
    /\ UNCHANGED <<args, providers, outcome, bloom, coverage, curve, batch,
                 startup, single, report, explain, cue, extract>>

\* the process ends
EndProcess ==
    /\ Len(repeat) > 0
    /\ repeat' = <<>>
    /\ UNCHANGED <<args, providers, outcome, bloom, coverage, curve, batch,
                 startup, single, report, explain, cue, extract>>

NextRepeat == CallAgain \/ EndProcess

SpecRepeat == Init /\ [][NextRepeat]_vars

(***************************************************************************)
(* The batch drivers: answer_evaluator.evaluate_from_json_files and        *)
(* evaluate.evaluate.  A JSON object is a function from its keys to their  *)
(* values, {} being the empty function.  Every "Text" is a string.         *)
(***************************************************************************)
EmptyDict == <<>>

\* d.get(k, default), for a value that is never None
dict_get(d, k, default) == IF k \in DOMAIN d THEN d[k] ELSE default

\* d.get(k): None when the key is absent
dict_find(d, k) == IF k \in DOMAIN d THEN Some(d[k]) ELSE None

\* d with the item k: v added or replaced
dict_set(d, k, v) == [x \in DOMAIN d \cup {k} |-> IF x = k THEN v ELSE d[x]]

\* s.strip()
RECURSIVE strip(_)
strip(s) ==
    IF Len(s) = 0 THEN s
    ELSE IF IsSpace(Char(s, 1)) THEN strip(SubSeq(s, 2, Len(s)))
    ELSE IF IsSpace(Char(s, Len(s))) THEN strip(SubSeq(s, 1, Len(s) - 1))
    ELSE s

\* round(x * 100, 1) for x / ONE, as a count of tenths of a percent (the
\* values explored are never half-way between two tenths)
percent_tenths(x) ==
    LET step == ONE \div 1000
        q == x \div step
        r == x % step
    IN  IF 2 * r > step THEN q + 1
        ELSE IF 2 * r < step THEN q
        ELSE q + (q % 2)

\* a reported value (a count of 1/Quantum) as a float
AsFloat(reported) == reported * (ONE \div Quantum)

\* compare_images(student_img, reference_img): the similarity, or None when
\* it raises (get_clip_embedding raises for a path that is no file)
compare_images(lib) ==
    IF lib.student_image_exists /\ lib.reference_image_exists
    THEN lib.similarity ELSE None

\* reset_image_score with the reset forgotten: the value the iteration
\* before left in the local
stale_image_score(carried) == carried

\* image_score as the loop body starts: line 179 resets it
reset_image_score(carried) == None

\* one iteration of the loop of evaluate_from_json_files (lines 165-237) for
\* question_id, with what the libraries do for that question and the value
\* the local image_score holds from the iteration before.  The result is
\* what the iteration adds: the record, the percentage added to total_score,
\* whether evaluated_questions is incremented; or the exception that leaves
\* the loop.
from_json_question(student_data, answer_key_data, lib, question_id, carried) ==
    LET answer_key_info == answer_key_data[question_id]
    IN  IF question_id \in DOMAIN student_data
        THEN LET student_info == student_data[question_id]
                 gt_question == dict_get(answer_key_info, "Question", "")
                 gt_answer == dict_get(answer_key_info, "Text", "")
                 bloom_level == dict_get(answer_key_info, "BloomLevel", "Understand")
                 keywords == dict_get(answer_key_info, "Keywords", <<>>)
                 student_img == dict_find(student_info, "Image")
                 reference_img == dict_find(answer_key_info, "Image")
                 image_score == IF Truthy(student_img) /\ Truthy(reference_img)
                                THEN compare_images(lib)
                                ELSE reset_image_score(carried)
                 student_answer == dict_get(student_info, "Text", "")
             IN  IF ~IsBlank(gt_answer)
                 THEN LET evaluation == evaluate_answer(gt_question, gt_answer, student_answer, Some(bloom_level), Some(keywords), None, lib)
                      IN  IF evaluation.kind = "raise"
                          THEN [kind |-> "raise", exc |-> evaluation.exc]
                          ELSE LET percentage_score == percent_tenths(AsFloat(evaluation.value.final_score))
                                   details == IF ~IsNone(image_score)
                                              THEN [evaluation.value EXCEPT !.image_similarity = Some(RoundN(Get(image_score)))]
                                              ELSE evaluation.value
                               IN  [kind |-> "continue",
                                    result |-> [question |-> gt_question,
                                                expected_answer |-> gt_answer,
                                                student_answer |-> student_answer,
                                                evaluation_details |-> details,
                                                percentage_score |-> Some(percentage_score),
                                                has_student_image |-> Truthy(student_img),
                                                has_reference_image |-> Truthy(reference_img)],
                                    add |-> percentage_score, counted |-> 1,
                                    image_score |-> image_score]
                 ELSE [kind |-> "continue",
                       result |-> [question |-> gt_question,
                                   expected_answer |-> "No reference answer provided",
                                   student_answer |-> student_answer,
                                   percentage_score |-> None,
                                   note |-> "Cannot evaluate - no reference answer"],
                       add |-> 0, counted |-> 0, image_score |-> image_score]
        ELSE [kind |-> "continue",
              result |-> [question |-> dict_get(answer_key_info, "Question", ""),
                          expected_answer |-> dict_get(answer_key_info, "Text", ""),
                          student_answer |-> "No answer provided",
                          percentage_score |-> Some(0),
                          evaluation_details |-> [semantic_score |-> 0, final_score |-> 0]],
              add |-> 0, counted |-> 1, image_score |-> carried]

\* overall_average with the division forgotten: the total itself
overall_average_undivided(total_score, evaluated_questions) ==
    IF evaluated_questions = 0 THEN {0}
    ELSE {total_score}

\* round(total_score / evaluated_questions, 1) in tenths of a percent, 0 when
\* nothing was evaluated.  total_score is a running sum of floats: when the
\* exact quotient is half-way between two tenths, the side the float falls
\* on is not represented here, and both neighbours are possible.
overall_average(total_score, evaluated_questions) ==
    IF evaluated_questions = 0 THEN {0}
    ELSE LET q == total_score \div evaluated_questions
             r == total_score % evaluated_questions
         IN  IF 2 * r > evaluated_questions THEN {q + 1}
             ELSE IF 2 * r < evaluated_questions THEN {q}
             ELSE {q, q + 1}

\* the summary of evaluate_from_json_files (lines 244-251), but for
\* overall_average
from_json_summary(student_data, answer_key_data, total_score, evaluated_questions) ==
    [total_questions |-> Cardinality(DOMAIN answer_key_data),
     answered_questions |->
        Cardinality({q \in DOMAIN student_data :
                        /\ q \in DOMAIN answer_key_data
                        /\ ~IsBlank(dict_get(student_data[q], "Text", ""))}),
     evaluated_questions |-> evaluated_questions,
     total_possible_score |-> evaluated_questions * 100,
     total_achieved_score |-> total_score]

\* the weights of evaluate.py, in tenths
TEXT_WEIGHT == 6
IMAGE_WEIGHT == 4

\* safe_float(value): 0.0 for None
safe_float(value) == IF IsNone(value) THEN 0 ELSE Get(value)

\* "grade_recommendation" of generate_detailed_explanation, from
\* percentage = final_score * 100 (here in tenths of a percent, unrounded
\* values compared exactly)
grade_recommendation(final_score) ==
    LET percentage(p) == (p * ONE) \div 100
    IN  IF final_score >= percentage(90) THEN "A+"
        ELSE IF final_score >= percentage(85) THEN "A"
        ELSE IF final_score >= percentage(80) THEN "A-"
        ELSE IF final_score >= percentage(75) THEN "B+"
        ELSE IF final_score >= percentage(70) THEN "B"
        ELSE IF final_score >= percentage(65) THEN "B-"
        ELSE IF final_score >= percentage(60) THEN "C+"
        ELSE IF final_score >= percentage(55) THEN "C"
        ELSE IF final_score >= percentage(50) THEN "C-"
        ELSE IF final_score >= percentage(45) THEN "D+"
        ELSE IF final_score >= percentage(40) THEN "D"
        ELSE "F"

\* combine_scores with both weights applied whatever is missing
combine_scores_always_weighted(text_score, image_score) ==
    Tenths(TEXT_WEIGHT, safe_float(text_score)) + Tenths(IMAGE_WEIGHT, safe_float(image_score))

\* "Combine scores" of evaluate_single_question (lines 280-295): final_score
\* from the two component scores, each a float or None
combine_scores(text_score, image_score) ==
    IF ~IsNone(text_score) /\ ~IsNone(image_score)
    THEN Tenths(TEXT_WEIGHT, Get(text_score)) + Tenths(IMAGE_WEIGHT, Get(image_score))
    ELSE IF ~IsNone(text_score) THEN Get(text_score)
    ELSE IF ~IsNone(image_score) THEN Get(image_score)
    ELSE 0

\* evaluate_single_question (evaluate.py, lines 211-311).  Of the
\* explanation, the percentage and the grade are represented; the lists of
\* sentences are not.  ScoreComponents is represented by which components
\* were combined.
evaluate_single_question(student_data, key_data, lib) ==
    LET student_text == strip(dict_get(student_data, "Text", ""))
        reference_text == strip(dict_get(key_data, "Text", ""))
        evaluation == evaluate_answer(dict_get(key_data, "Question", ""),
                                      reference_text, student_text,
                                      dict_find(key_data, "BloomLevel"),
                                      dict_find(key_data, "Keywords"), None, lib)
        text_failed == evaluation.kind = "raise"
        text_score == IF Len(student_text) > 0 /\ Len(reference_text) > 0
                      THEN (IF text_failed THEN Some(0)
                            ELSE Some(AsFloat(evaluation.value.final_score)))
                      ELSE IF Len(reference_text) > 0 THEN Some(0)
                      ELSE None
        detailed_text_eval == IF Len(student_text) > 0 /\ Len(reference_text) > 0 /\ ~text_failed
                              THEN Some(evaluation.value) ELSE None
        student_image == dict_find(student_data, "Image")
        reference_image == dict_find(key_data, "Image")
        image_score == IF Truthy(student_image) /\ Truthy(reference_image)
                       THEN (IF lib.student_image_exists /\ lib.reference_image_exists
                             THEN (IF IsNone(compare_images(lib)) THEN Some(0)
                                   ELSE compare_images(lib))
                             ELSE Some(0))
                       ELSE IF Truthy(reference_image) THEN Some(0)
                       ELSE None
        final_score == combine_scores(text_score, image_score)
        score_components == IF ~IsNone(text_score) /\ ~IsNone(image_score) THEN "text and image"
                            ELSE IF ~IsNone(text_score) THEN "text only"
                            ELSE IF ~IsNone(image_score) THEN "image only"
                            ELSE "no valid components"
    IN  [TextScore |-> Some(safe_float(text_score)),
         ImageScore |-> Some(safe_float(image_score)),
         FinalScore |-> Some(final_score),
         ScoreComponents |-> score_components,
         DetailedTextEvaluation |-> detailed_text_eval,
         Explanation |-> [percentage |-> percent_tenths(final_score),
                          grade_recommendation |-> grade_recommendation(final_score)]]

\* evaluate_question with an id the student left out given no score, like
\* an id the answer key lacks
evaluate_question_skips_unanswered(student_answers, answer_key, lib, q_num) ==
    LET student_data == dict_get(student_answers, q_num, EmptyDict)
        key_data == dict_get(answer_key, q_num, EmptyDict)
    IN  IF DOMAIN student_data = {}
        THEN [TextScore |-> None, ImageScore |-> None, FinalScore |-> None,
              ScoreComponents |-> "no student answer"]
        ELSE IF DOMAIN key_data = {}
        THEN [TextScore |-> None, ImageScore |-> None, FinalScore |-> None,
              ScoreComponents |-> "no answer key"]
        ELSE evaluate_single_question(student_data, key_data, lib)

\* the body of the loop of evaluate (evaluate.py, lines 344-370) for q_num
evaluate_question(student_answers, answer_key, lib, q_num) ==
    LET student_data == dict_get(student_answers, q_num, EmptyDict)
        key_data == dict_get(answer_key, q_num, EmptyDict)
    IN  IF DOMAIN student_data = {}
        THEN [TextScore |-> Some(0), ImageScore |-> Some(0), FinalScore |-> Some(0),
              ScoreComponents |-> "no student answer"]
        ELSE IF DOMAIN key_data = {}
        THEN [TextScore |-> None, ImageScore |-> None, FinalScore |-> None,
              ScoreComponents |-> "no answer key"]
        ELSE evaluate_single_question(student_data, key_data, lib)

RECURSIVE SumOver(_, _)
\* sum(f[x] for x in S)
SumOver(f, S) ==
    IF S = {} THEN 0
    ELSE LET x == CHOOSE y \in S : TRUE IN f[x] + SumOver(f, S \ {x})

\* results["_summary"] of evaluate (lines 373-391).  average_score, an
\* unrounded quotient, is kept as the sum and the count it divides.
evaluate_summary(results, all_questions) ==
    LET valid == {q \in DOMAIN results : ~IsNone(results[q].FinalScore)}
        scores == [q \in valid |-> Get(results[q].FinalScore)]
    IN  [total_questions |-> Cardinality(all_questions),
         evaluated_questions |-> Cardinality(valid),
         average_score |-> IF valid # {}
                           THEN [sum |-> SumOver(scores, valid), count |-> Cardinality(valid)]
                           ELSE [sum |-> 0, count |-> 1],
         text_weight |-> TEXT_WEIGHT, image_weight |-> IMAGE_WEIGHT]

QNames == <<"Q1", "Q2", "Q3", "Q4">>

QIds == {QNames[i] : i \in 1..MaxQuestions}

Drivers == {"evaluate_from_json_files", "evaluate"}

\* what the libraries do for one question, when all of them work
WorkingLibs ==
    [sem |-> Some(Dec(73219, 5)), bleu |-> Some(Dec(31416, 5)), rouge |-> Some(Dec(6, 1)),
     similarity |-> Some(Dec(5, 1)),
     student_image_exists |-> TRUE, reference_image_exists |-> TRUE]

\* what a question id can stand for: the student's entry and the answer key's
\* (None when the file has no such id), and what the libraries do for it.
\* In turn: an answered question; one for which sentence_bleu raises; one
\* with images whose comparison raises; an image with no text; a question
\* the student left out; an answer with no answer-key entry; a blank
\* reference answer; an answered question with images that compare.
BatchItems ==
    { [student |-> Some([Text |-> "ARM is a processor."]),
       key |-> Some([Question |-> "What is ARM?", Text |-> ReferenceAnswer,
                     BloomLevel |-> "Understand",
                     Keywords |-> <<"processor core", "AHB">>]),
       libs |-> WorkingLibs],
      [student |-> Some([Text |-> " Processor. "]),
       key |-> Some([Question |-> "Define ARM.", Text |-> ReferenceAnswer]),
       libs |-> [WorkingLibs EXCEPT !.bleu = None]],
      [student |-> Some([Text |-> "We proposed a novel bus.", Image |-> "s3.png"]),
       key |-> Some([Question |-> "Design a cache.", Text |-> ReferenceAnswer,
                     Image |-> "r3.png", BloomLevel |-> "Create"]),
       libs |-> [WorkingLibs EXCEPT !.sem = Some(Dec(5, 1)), !.bleu = Some(Dec(2, 1)),
                                    !.rouge = None, !.similarity = None]],
      [student |-> Some([Text |-> "", Image |-> "s4.png"]),
       key |-> Some([Text |-> ReferenceAnswer, Image |-> "r4.png"]),
       libs |-> WorkingLibs],
      [student |-> None,
       key |-> Some([Question |-> "Explain the architecture of ARM processor.",
                     Text |-> ReferenceAnswer]),
       libs |-> WorkingLibs],
      [student |-> Some([Text |-> "ARM."]),
       key |-> None,
       libs |-> WorkingLibs],
      [student |-> Some([Text |-> "ARM is a processor."]),
       key |-> Some([Question |-> "What is ARM?", Text |-> "  "]),
       libs |-> WorkingLibs],
      [student |-> Some([Text |-> "ARM is a processor core.", Image |-> "s8.png"]),
       key |-> Some([Question |-> "What is ARM?", Text |-> ReferenceAnswer,
                     Image |-> "r8.png", Keywords |-> <<"processor core">>]),
       libs |-> [WorkingLibs EXCEPT !.similarity = Some(Dec(8, 1))]] }

\* start_batch with only the answer key tested at line 157
start_batch_scores_empty_student(driver, student_data, answer_key_data, libs) ==
    IF driver = "evaluate_from_json_files" /\ DOMAIN answer_key_data = {}
    THEN [kind |-> "done", driver |-> driver, student_data |-> student_data,
          answer_key_data |-> answer_key_data, libs |-> libs,
          results |-> EmptyDict, summary |-> None]
    ELSE IF driver = "evaluate_from_json_files"
    THEN [kind |-> "running", driver |-> driver, student_data |-> student_data,
          answer_key_data |-> answer_key_data, libs |-> libs,
          todo |-> DOMAIN answer_key_data, results |-> EmptyDict,
          total_score |-> 0, evaluated_questions |-> 0, image_score |-> None]
    ELSE [kind |-> "running", driver |-> driver, student_data |-> student_data,
          answer_key_data |-> answer_key_data, libs |-> libs,
          todo |-> DOMAIN student_data \cup DOMAIN answer_key_data,
          results |-> EmptyDict]

\* the driver as its loop starts; evaluate_from_json_files returns None at
\* once when either file holds no entry (line 157)
start_batch(driver, student_data, answer_key_data, libs) ==
    IF driver = "evaluate_from_json_files"
    THEN IF DOMAIN student_data = {} \/ DOMAIN answer_key_data = {}
         THEN [kind |-> "done", driver |-> driver, student_data |-> student_data,
               answer_key_data |-> answer_key_data, libs |-> libs,
               results |-> EmptyDict, summary |-> None]
         ELSE [kind |-> "running", driver |-> driver, student_data |-> student_data,
               answer_key_data |-> answer_key_data, libs |-> libs,
               todo |-> DOMAIN answer_key_data, results |-> EmptyDict,
               total_score |-> 0, evaluated_questions |-> 0, image_score |-> None]
    ELSE [kind |-> "running", driver |-> driver, student_data |-> student_data,
          answer_key_data |-> answer_key_data, libs |-> libs,
          todo |-> DOMAIN student_data \cup DOMAIN answer_key_data,
          results |-> EmptyDict]

\* what a path can lead to: no file, a file that is not JSON, a file holding
\* a JSON object
FileStatuses == {"missing", "malformed", "ok"}

\* a file of the given status, holding data when it can be read
json_file(status, data) ==
    IF status = "ok" THEN [status |-> status, data |-> data] ELSE [status |-> status]

\* load_json_file (answer_evaluator.py lines 136-150): the object, or None
\* for a missing file (FileNotFoundError) and for a file that is not JSON
\* (json.JSONDecodeError)
load_json_file(file) == IF file.status = "ok" THEN Some(file.data) ELSE None

\* a driver is called on two paths.  evaluate_from_json_files loads both
\* with load_json_file and returns None when either gave None (line 157);
\* evaluate raises FileNotFoundError for a missing file (lines 323-326) and
\* lets json.load raise for a file that is not JSON (lines 330-335).  A file
\* that was not read is recorded as holding nothing.
open_batch(driver, student_file, answer_key_file, libs) ==
    LET files == [student |-> student_file.status, key |-> answer_key_file.status]
        unread == [driver |-> driver, student_data |-> EmptyDict,
                   answer_key_data |-> EmptyDict, libs |-> libs, files |-> files]
    IN  IF driver = "evaluate_from_json_files"
        THEN LET student_data == load_json_file(student_file)
                 answer_key_data == load_json_file(answer_key_file)
             IN  IF IsNone(student_data) \/ IsNone(answer_key_data)
                 THEN unread @@ [kind |-> "done", results |-> EmptyDict, summary |-> None]
                 ELSE start_batch(driver, Get(student_data), Get(answer_key_data), libs)
                         @@ [files |-> files]
        ELSE IF "missing" \in {student_file.status, answer_key_file.status}
        THEN unread @@ [kind |-> "raise", exc |-> "FileNotFoundError", at |-> "load"]
        ELSE IF "malformed" \in {student_file.status, answer_key_file.status}
        THEN unread @@ [kind |-> "raise", exc |-> "JSONDecodeError", at |-> "load"]
        ELSE start_batch(driver, student_file.data, answer_key_file.data, libs)
                @@ [files |-> files]

\* a driver is called on the paths of a student file and an answer-key file
LoadBatch ==
    /\ batch.kind = "idle"
    /\ \E driver \in Drivers, f \in [QIds -> BatchItems], student_status, key_status \in FileStatuses :
          batch' = open_batch(driver,
                              json_file(student_status,
                                        [q \in {x \in QIds : ~IsNone(f[x].student)} |-> Get(f[q].student)]),
                              json_file(key_status,
                                        [q \in {x \in QIds : ~IsNone(f[x].key)} |-> Get(f[q].key)]),
                              [q \in QIds |-> f[q].libs])
    /\ UNCHANGED <<args, providers, outcome, bloom, coverage, curve, repeat,
                 startup, single, report, explain, cue, extract>>

\* the batch as an exception leaves the driver
batch_raised(exc, question_id) ==
    [kind |-> "raise", driver |-> batch.driver, student_data |-> batch.student_data,
     answer_key_data |-> batch.answer_key_data, libs |-> batch.libs,
     files |-> batch.files, exc |-> exc, at |-> question_id]

\* one iteration of the loop of evaluate_from_json_files.  The loop follows
\* the order of the answer-key file; the ids stand for any ids in any order.
StepFromJson ==
    /\ batch.kind = "running" /\ batch.driver = "evaluate_from_json_files"
    /\ \E question_id \in batch.todo :
          LET step == from_json_question(batch.student_data, batch.answer_key_data,
                                         batch.libs[question_id], question_id,
                                         batch.image_score)
          IN  batch' = IF step.kind = "raise"
                       THEN batch_raised(step.exc, question_id)
                       ELSE [batch EXCEPT
                               !.todo = @ \ {question_id},
                               !.results = dict_set(@, question_id, step.result),
                               !.total_score = @ + step.add,
                               !.evaluated_questions = @ + step.counted,
                               !.image_score = step.image_score]
    /\ UNCHANGED <<args, providers, outcome, bloom, coverage, curve, repeat,
                 startup, single, report, explain, cue, extract>>

\* the loop is over: evaluate_from_json_files returns results and summary
FinishFromJson ==
    /\ batch.kind = "running" /\ batch.driver = "evaluate_from_json_files"
    /\ batch.todo = {}
    /\ \E average \in overall_average(batch.total_score, batch.evaluated_questions) :
          batch' = [kind |-> "done", driver |-> batch.driver,
                    student_data |-> batch.student_data,
                    answer_key_data |-> batch.answer_key_data, libs |-> batch.libs,
                    files |-> batch.files, results |-> batch.results,
                    summary |-> Some(from_json_summary(batch.student_data, batch.answer_key_data,
                                                       batch.total_score, batch.evaluated_questions)
                                     @@ [overall_average |-> average])]
    /\ UNCHANGED <<args, providers, outcome, bloom, coverage, curve, repeat,
                 startup, single, report, explain, cue, extract>>

\* one iteration of the loop of evaluate.  The loop follows the numbers in
\* the ids; the ids stand for any ids in any order.
StepEvaluate ==
    /\ batch.kind = "running" /\ batch.driver = "evaluate"
    /\ \E q_num \in batch.todo :
          batch' = [batch EXCEPT
                      !.todo = @ \ {q_num},
                      !.results = dict_set(@, q_num,
                                           evaluate_question(batch.student_data, batch.answer_key_data,
                                                             batch.libs[q_num], q_num))]
    /\ UNCHANGED <<args, providers, outcome, bloom, coverage, curve, repeat,
                 startup, single, report, explain, cue, extract>>

\* the loop is over: evaluate adds the summary and returns the results
FinishEvaluate ==
    /\ batch.kind = "running" /\ batch.driver = "evaluate"
    /\ batch.todo = {}
    /\ batch' = [kind |-> "done", driver |-> batch.driver,
                 student_data |-> batch.student_data,
                 answer_key_data |-> batch.answer_key_data, libs |-> batch.libs,
                 files |-> batch.files, results |-> batch.results,
                 summary |-> Some(evaluate_summary(batch.results,
                                     DOMAIN batch.student_data \cup DOMAIN batch.answer_key_data))]
    /\ UNCHANGED <<args, providers, outcome, bloom, coverage, curve, repeat,
                 startup, single, report, explain, cue, extract>>

\* the caller takes what the driver returned or raised
DiscardBatch ==
    /\ batch.kind \in {"done", "raise"}
    /\ batch' = [kind |-> "idle"]
    /\ UNCHANGED <<args, providers, outcome, bloom, coverage, curve, repeat,
                 startup, single, report, explain, cue, extract>>

NextBatch ==
    LoadBatch \/ StepFromJson \/ FinishFromJson \/ StepEvaluate \/ FinishEvaluate \/ DiscardBatch

SpecBatch == Init /\ [][NextBatch]_vars

(***************************************************************************)
(* Calls of evaluate_single_question                                       *)
(***************************************************************************)
\* student entries: text, blank text, image only, both, blank text and image
SingleStudents ==
    { [Text |-> " ARM is a processor core. "],
      [Text |-> ""],
      [Image |-> "s.png"],
      [Text |-> " ARM is a processor core. ", Image |-> "s.png"],
      [Text |-> "  ", Image |-> "s.png"] }

\* answer-key entries: with or without a reference text (absent or blank)
\* and a reference image
SingleKeys ==
    { [Question |-> "What is ARM?"],
      [Question |-> "What is ARM?", Text |-> "  "],
      [Question |-> "What is ARM?", Image |-> "r.png"],
      [Question |-> "What is ARM?", Text |-> "  ", Image |-> "r.png"],
      [Question |-> "What is ARM?", Text |-> ReferenceAnswer,
       BloomLevel |-> "Remember", Keywords |-> <<"processor core">>],
      [Question |-> "What is ARM?", Text |-> ReferenceAnswer,
       BloomLevel |-> "Remember", Keywords |-> <<"processor core">>,
       Image |-> "r.png"] }

\* what the text metrics do: all at 1.0, ordinary values, sentence_bleu raising
SingleTextLibs ==
    { [sem |-> Some(ONE), bleu |-> Some(ONE), rouge |-> Some(ONE)],
      [sem |-> Some(Dec(73219, 5)), bleu |-> Some(Dec(31416, 5)), rouge |-> Some(Dec(6, 1))],
      [sem |-> Some(Dec(5, 1)), bleu |-> None, rouge |-> Some(Dec(6, 1))] }

\* what the image comparison does: a similarity in [0, 1], an exception, or
\* a student image path that is no file
SingleImageLibs ==
    { [similarity |-> Some(0), student_image_exists |-> TRUE, reference_image_exists |-> TRUE],
      [similarity |-> Some(Dec(5, 1)), student_image_exists |-> TRUE, reference_image_exists |-> TRUE],
      [similarity |-> Some(ONE), student_image_exists |-> TRUE, reference_image_exists |-> TRUE],
      [similarity |-> None, student_image_exists |-> TRUE, reference_image_exists |-> TRUE],
      [similarity |-> Some(ONE), student_image_exists |-> FALSE, reference_image_exists |-> TRUE] }

\* evaluate calls evaluate_single_question for a question that has both a
\* student entry and an answer-key entry
EvaluateSingleQuestion ==
    /\ single.kind = "idle"
    /\ \E student_data \in SingleStudents, key_data \in SingleKeys,
          text_lib \in SingleTextLibs, image_lib \in SingleImageLibs :
          single' = [kind |-> "returned", student_data |-> student_data,
                     key_data |-> key_data, lib |-> text_lib @@ image_lib,
                     result |-> evaluate_single_question(student_data, key_data,
                                                         text_lib @@ image_lib)]
    /\ UNCHANGED <<args, providers, outcome, bloom, coverage, curve, repeat, batch,
                   startup, report, explain, cue, extract>>

\* the caller stores the record
DiscardSingle ==
    /\ single.kind = "returned"
    /\ single' = [kind |-> "idle"]
    /\ UNCHANGED <<args, providers, outcome, bloom, coverage, curve, repeat, batch,
                   startup, report, explain, cue, extract>>

NextSingle == EvaluateSingleQuestion \/ DiscardSingle

SpecSingle == Init /\ [][NextSingle]_vars

(***************************************************************************)
(* report_generator.generate_full_report on a results file of evaluate     *)
(***************************************************************************)
\* the ids in the order of the numbers in them: question_nums.sort(key=...)
question_order(ids) ==
    LET InIds(q) == q \in ids IN SelectSeq(QNames, InIds)

\* f"{value:.3f}" raises TypeError for None
formattable(value) == ~IsNone(value)

\* generate_question_feedback (lines 11-72): the numbers of the first
\* f-string, or the TypeError formatting one of them raises
generate_question_feedback(q_num, result, student_data, key_data) ==
    LET explanation == dict_get(result, "Explanation", EmptyDict)
        percentage == dict_get(explanation, "percentage", 0)
        grade == dict_get(explanation, "grade_recommendation", "N/A")
        text_score == dict_get(result, "TextScore", Some(0))
        image_score == dict_get(result, "ImageScore", Some(0))
        final_score == dict_get(result, "FinalScore", Some(0))
    IN  IF formattable(text_score) /\ formattable(image_score) /\ formattable(final_score)
        THEN [kind |-> "feedback", question |-> q_num,
              percentage |-> percentage, grade |-> grade,
              text_score |-> Get(text_score), image_score |-> Get(image_score),
              final_score |-> Get(final_score),
              image |-> IF Truthy(dict_find(student_data, "Image"))
                        THEN "Provided" ELSE "Not provided",
              reference |-> Truthy(dict_find(key_data, "Text"))]
        ELSE [kind |-> "raise", exc |-> "TypeError"]

\* generate_summary_report (lines 74-176): the counts it derives; it tests
\* FinalScore, TextScore and ImageScore for None before using them
generate_summary_report(results) ==
    LET questions == DOMAIN results.questions
    IN  [total_questions |-> results.summary.total_questions,
         evaluated_questions |-> results.summary.evaluated_questions,
         valid_scores |-> Cardinality({q \in questions :
                                         ~IsNone(results.questions[q].FinalScore)}),
         text_scores |-> Cardinality({q \in questions :
                                        ~IsNone(results.questions[q].TextScore)}),
         image_scores |-> Cardinality({q \in questions :
                                         ~IsNone(results.questions[q].ImageScore)})]

\* evaluate is run on two files and evaluates every id of either (lines
\* 340-371)
EvaluateQuestions ==
    /\ report.kind = "idle"
    /\ \E f \in [QIds -> BatchItems] :
          LET student_answers == [q \in {x \in QIds : ~IsNone(f[x].student)} |-> Get(f[q].student)]
              answer_key == [q \in {x \in QIds : ~IsNone(f[x].key)} |-> Get(f[q].key)]
          IN  report' = [kind |-> "evaluated",
                         student_answers |-> student_answers, answer_key |-> answer_key,
                         questions |-> [q \in DOMAIN student_answers \cup DOMAIN answer_key |->
                                          evaluate_question(student_answers, answer_key, f[q].libs, q)]]
    /\ UNCHANGED <<args, providers, outcome, bloom, coverage, curve, repeat, batch,
                   startup, single, explain, cue, extract>>

\* evaluate adds _summary and writes the results file (lines 373-397)
WriteResults ==
    /\ report.kind = "evaluated"
    /\ report' = [kind |-> "saved",
                  student_answers |-> report.student_answers, answer_key |-> report.answer_key,
                  results |-> [questions |-> report.questions,
                               summary |-> evaluate_summary(report.questions,
                                                            DOMAIN report.questions)]]
    /\ UNCHANGED <<args, providers, outcome, bloom, coverage, curve, repeat, batch,
                   startup, single, explain, cue, extract>>

\* generate_full_report is called on the results file and on the two files:
\* it loads them and renders the summary
StartReport ==
    /\ report.kind = "saved"
    /\ report' = [kind |-> "running", results |-> report.results,
                  student_answers |-> report.student_answers,
                  answer_key |-> report.answer_key,
                  summary |-> generate_summary_report(report.results),
                  question_nums |-> question_order(DOMAIN report.results.questions),
                  feedback |-> <<>>]
    /\ UNCHANGED <<args, providers, outcome, bloom, coverage, curve, repeat, batch,
                   startup, single, explain, cue, extract>>

\* the loop of generate_full_report renders the next question
QuestionFeedback ==
    /\ report.kind = "running"
    /\ Len(report.feedback) < Len(report.question_nums)
    /\ LET q_num == report.question_nums[Len(report.feedback) + 1]
           question_feedback ==
              generate_question_feedback(q_num, report.results.questions[q_num],
                                         dict_get(report.student_answers, q_num, EmptyDict),
                                         dict_get(report.answer_key, q_num, EmptyDict))
       IN  report' = IF question_feedback.kind = "raise"
                     THEN [kind |-> "raise", exc |-> question_feedback.exc, at |-> q_num,
                           results |-> report.results]
                     ELSE [report EXCEPT !.feedback = Append(@, question_feedback)]
    /\ UNCHANGED <<args, providers, outcome, bloom, coverage, curve, repeat, batch,
                   startup, single, explain, cue, extract>>

\* the loop is over: the recommendations are added and the report is written
WriteReport ==
    /\ report.kind = "running"
    /\ Len(report.feedback) = Len(report.question_nums)
    /\ report' = [kind |-> "written", results |-> report.results,
                  summary |-> report.summary, feedback |-> report.feedback]
    /\ UNCHANGED <<args, providers, outcome, bloom, coverage, curve, repeat, batch,
                   startup, single, explain, cue, extract>>

\* the caller takes the report or the exception
DiscardReport ==
    /\ report.kind \in {"written", "raise"}
    /\ report' = [kind |-> "idle"]
    /\ UNCHANGED <<args, providers, outcome, bloom, coverage, curve, repeat, batch,
                   startup, single, explain, cue, extract>>

NextReport ==
    \/ EvaluateQuestions \/ WriteResults
    \/ StartReport \/ QuestionFeedback \/ WriteReport \/ DiscardReport

SpecReport == Init /\ [][NextReport]_vars

(***************************************************************************)
(* The keyword line of generate_detailed_explanation                       *)
(***************************************************************************)
\* technical terms, none part of another
TermPool ==
    <<"cache", "bus", "pipeline", "register", "interrupt", "timer", "decoder", "adder">>

RECURSIVE TermsText(_, _)
\* the terms of the pool whose index is in chosen, among the first n, each
\* followed by a space
TermsText(n, chosen) ==
    IF n = 0 THEN ""
    ELSE TermsText(n - 1, chosen) \o (IF n \in chosen THEN TermPool[n] \o " " ELSE "")

\* "Keyword analysis" of generate_detailed_explanation (lines 107-113): the
\* X and N of 'Keyword coverage: X/N key terms found', None when the line
\* is not written.  kw_coverage is the keyword_coverage of the record, a
\* count of 1/Quantum; int() truncates.
keyword_line(detailed_text_eval, key_data) ==
    IF ~IsNone(detailed_text_eval) /\ Truthy(dict_find(key_data, "Keywords"))
    THEN LET kw_coverage == Get(detailed_text_eval).keyword_coverage
             total_keywords == Len(key_data.Keywords)
         IN  Some([found_keywords |-> (kw_coverage * total_keywords) \div Quantum,
                   total_keywords |-> total_keywords])
    ELSE None

\* evaluate_single_question evaluates a text answer that uses some of the
\* expected keywords and generates its explanation
ExplainKeywords ==
    /\ explain.kind = "idle"
    /\ \E n \in 1..MaxTerms :
       \E chosen \in SUBSET (1..n) :
          LET student_data == [Text |-> "The design has a " \o TermsText(n, chosen)]
              key_data == [Question |-> "What is ARM?", Text |-> ReferenceAnswer,
                           Keywords |-> SubSeq(TermPool, 1, n)]
              student_text == strip(student_data.Text)
              evaluation == evaluate_answer(key_data.Question, strip(key_data.Text),
                                            student_text, dict_find(key_data, "BloomLevel"),
                                            dict_find(key_data, "Keywords"), None, WorkingLibs)
          IN  explain' = [kind |-> "explained", student_text |-> student_text,
                          key_data |-> key_data,
                          detailed_text_eval |-> evaluation.value,
                          line |-> keyword_line(Some(evaluation.value), key_data)]
    /\ UNCHANGED <<args, providers, outcome, bloom, coverage, curve, repeat, batch,
                   startup, single, report, cue, extract>>

\* the explanation is stored with the record
DiscardExplain ==
    /\ explain.kind = "explained"
    /\ explain' = [kind |-> "idle"]
    /\ UNCHANGED <<args, providers, outcome, bloom, coverage, curve, repeat, batch,
                   startup, single, report, cue, extract>>

NextExplain == ExplainKeywords \/ DiscardExplain

SpecExplain == Init /\ [][NextExplain]_vars

(***************************************************************************)
(* classify_bloom on texts with a single cue                               *)
(***************************************************************************)
\* words around a cue, none of them a cue of either ladder; the second
\* leaves the text under RememberMaxWords words
CueFrames ==
    { [before |-> "", after |-> ""],
      [before |-> "The ARM bus ", after |-> " the core."] }

\* classify_bloom is called with a text whose only cue is one alternative of
\* one pattern: as the question (with an empty answer) or as the answer
\* (with an empty question)
ClassifyCue ==
    /\ cue.kind = "idle"
    /\ \E ladder \in {"question", "answer"}, tier \in 1..Len(bloom_hierarchy), frame \in CueFrames :
       \E word \in (IF ladder = "question" THEN question_cues[tier] ELSE answer_cues[tier]) :
          LET text == frame.before \o word \o frame.after
              question == IF ladder = "question" THEN text ELSE ""
              answer == IF ladder = "answer" THEN text ELSE ""
          IN  cue' = [kind |-> "classified", ladder |-> ladder, tier |-> tier,
                      word |-> word, question |-> question, answer |-> answer,
                      question_level |-> question_level(lower(question)),
                      answer_level |-> answer_level(lower(answer)),
                      result |-> classify_bloom(question, answer)]
    /\ UNCHANGED <<args, providers, outcome, bloom, coverage, curve, repeat, batch,
                   startup, single, report, explain, extract>>

\* the caller takes the level
DiscardCue ==
    /\ cue.kind = "classified"
    /\ cue' = [kind |-> "idle"]
    /\ UNCHANGED <<args, providers, outcome, bloom, coverage, curve, repeat, batch,
                   startup, single, report, explain, extract>>

NextCue == ClassifyCue \/ DiscardCue

SpecCue == Init /\ [][NextCue]_vars

(***************************************************************************)
(* extractors.py: the recognised lines of a page and identify_questions    *)
(***************************************************************************)
\* lines the recognition can return for the text blocks of a page
RawLines ==
    {"Q1. ARM", "Q1", "2. bus", "core", " q2 ", "12 volts", "  ", "Q2.AHB"}

\* the lists of at most n recognised lines
LinesUpTo(n) == UNION {[1..k -> RawLines] : k \in 0..n}

\* what extract_text_from_crop returns (line 29): the lines stripped, the
\* empty ones left out
extract_text_from_crop(text_lines) ==
    SelectSeq([i \in 1..Len(text_lines) |-> strip(text_lines[i])],
              LAMBDA line : Len(line) > 0)

\* the length of the run of characters satisfying the test that starts at
\* position i of s
RECURSIVE RunLength(_, _, _)
RunLength(s, i, IsDigitRun) ==
    IF i > Len(s) THEN 0
    ELSE IF IsDigitRun /\ IsIn(Char(s, i), Digits) THEN 1 + RunLength(s, i + 1, IsDigitRun)
    ELSE IF ~IsDigitRun /\ IsSpace(Char(s, i)) THEN 1 + RunLength(s, i + 1, IsDigitRun)
    ELSE 0

\* re.match(r'^[Qq]?(\d+)\.?\s*(.*)$', s): None, or the two groups.  Each
\* repetition is greedy and nothing can be gained by giving characters
\* back: the match fails when no digit follows the optional Q, or when a
\* line break is left for (.*), which does not match it.
question_match(s) ==
    LET digits_at == IF Len(s) > 0 /\ Char(s, 1) \in {"Q", "q"} THEN 2 ELSE 1
        digits == RunLength(s, digits_at, TRUE)
        dot_at == digits_at + digits
        space_at == IF dot_at <= Len(s) /\ Char(s, dot_at) = "." THEN dot_at + 1 ELSE dot_at
        rest_at == space_at + RunLength(s, space_at, FALSE)
        rest == SubSeq(s, rest_at, Len(s))
    IN  IF digits = 0 \/ \E i \in 1..Len(rest) : Char(rest, i) = "\n"
        THEN None
        ELSE Some([number |-> SubSeq(s, digits_at, dot_at - 1), remaining |-> rest])

\* '\n'.join(lines)
RECURSIVE join_lines(_)
join_lines(lines) ==
    IF Len(lines) = 0 THEN ""
    ELSE IF Len(lines) = 1 THEN lines[1]
    ELSE lines[1] \o "\n" \o join_lines(Tail(lines))

\* save_question with the test of current_text forgotten
save_question_always(questions, current_question, current_text) ==
    IF ~IsNone(current_question)
    THEN dict_set(questions, Get(current_question), strip(join_lines(current_text)))
    ELSE questions

\* lines 45-46 and 58-59: the question being collected is saved when it has
\* text
save_question(questions, current_question, current_text) ==
    IF ~IsNone(current_question) /\ Len(current_text) > 0
    THEN dict_set(questions, Get(current_question), strip(join_lines(current_text)))
    ELSE questions

\* the text blocks of a page are recognised; identify_questions is called
\* when there is any text (line 149)
ExtractText ==
    /\ extract.kind = "idle"
    /\ \E text_lines \in LinesUpTo(MaxLines) :
          LET all_text == extract_text_from_crop(text_lines)
          IN  extract' = IF Len(all_text) > 0
                         THEN [kind |-> "running", text_lines |-> all_text, next |-> 1,
                               questions |-> EmptyDict, current_question |-> None,
                               current_text |-> <<>>]
                         ELSE [kind |-> "done", text_lines |-> all_text, identified |-> FALSE,
                               questions |-> EmptyDict]
    /\ UNCHANGED <<args, providers, outcome, bloom, coverage, curve, repeat, batch,
                   startup, single, report, explain, cue>>

\* one iteration of the loop of identify_questions (lines 39-55)
StepIdentify ==
    /\ extract.kind = "running"
    /\ extract.next <= Len(extract.text_lines)
    /\ LET line == extract.text_lines[extract.next]
           match == question_match(strip(line))
       IN  extract' =
              IF ~IsNone(match)
              THEN LET remaining_text == strip(Get(match).remaining)
                   IN  [extract EXCEPT
                          !.next = @ + 1,
                          !.questions = save_question(@, extract.current_question,
                                                      extract.current_text),
                          !.current_question = Some("Q" \o Get(match).number),
                          !.current_text = IF Len(remaining_text) > 0
                                           THEN <<remaining_text>> ELSE <<>>]
              ELSE IF ~IsNone(extract.current_question)
              THEN [extract EXCEPT !.next = @ + 1,
                                   !.current_text = Append(@, strip(line))]
              ELSE [extract EXCEPT !.next = @ + 1]
    /\ UNCHANGED <<args, providers, outcome, bloom, coverage, curve, repeat, batch,
                   startup, single, report, explain, cue>>

\* the loop is over: the last question is saved and the questions returned
\* (lines 57-61)
FinishIdentify ==
    /\ extract.kind = "running"
    /\ extract.next > Len(extract.text_lines)
    /\ extract' = [kind |-> "done", text_lines |-> extract.text_lines, identified |-> TRUE,
                   questions |-> save_question(extract.questions, extract.current_question,
                                               extract.current_text)]
    /\ UNCHANGED <<args, providers, outcome, bloom, coverage, curve, repeat, batch,
                   startup, single, report, explain, cue>>

\* the page's questions are merged into the results
DiscardExtract ==
    /\ extract.kind = "done"
    /\ extract' = [kind |-> "idle"]
    /\ UNCHANGED <<args, providers, outcome, bloom, coverage, curve, repeat, batch,
                   startup, single, report, explain, cue>>

NextExtract == ExtractText \/ StepIdentify \/ FinishIdentify \/ DiscardExtract

SpecExtract == Init /\ [][NextExtract]_vars

(***************************************************************************)
(* The start of evaluate.py: the import of answer_evaluator                *)
(***************************************************************************)
\* the modules of the repository that answer_evaluator.py is loaded with
LocalModules == {"answer_evaluator.py", "clip_image_compare.py", "bloom_utils.py"}

\* the NLTK resources answer_evaluator.py looks up as it loads
NltkResources == {"tokenizers/punkt", "corpora/stopwords"}

\* a top-level statement of answer_evaluator.py: its line, the names it
\* binds in the module, the local module it imports (if any) and the NLTK
\* resource it looks up and downloads when missing (if any).  The
\* third-party libraries are taken to be installed.
Statement(line, binds, needs, finds) ==
    [line |-> line, binds |-> binds, needs |-> needs, finds |-> finds]

\* answer_evaluator.py, statement by statement, as an import executes it
\* (the final `if __name__ == "__main__"` is false in an import)
answer_evaluator_statements ==
    << Statement(2, {"json"}, None, None),
       Statement(3, {"SentenceTransformer", "util"}, None, None),
       Statement(4, {"sentence_bleu", "SmoothingFunction"}, None, None),
       Statement(5, {"Rouge"}, None, None),
       Statement(6, {"nltk"}, None, None),
       Statement(7, {"re"}, None, None),
       Statement(8, {"stopwords"}, None, None),
       Statement(9, {"word_tokenize"}, None, None),
       Statement(10, {"compare_images"}, Some("clip_image_compare.py"), None),
       Statement(11, {"classify_bloom"}, Some("bloom_utils.py"), None),
       Statement(14, {}, None, Some("tokenizers/punkt")),
       Statement(18, {}, None, Some("corpora/stopwords")),
       Statement(24, {"sbert_model"}, None, None),
       Statement(25, {"rouge"}, None, None),
       Statement(26, {"smoothie"}, None, None),
       Statement(27, {"stop_words"}, None, None),
       Statement(32, {"keyword_coverage_score"}, None, None),
       Statement(38, {"evaluate_answer"}, None, None),
       Statement(136, {"load_json_file"}, None, None),
       Statement(152, {"evaluate_from_json_files"}, None, None),
       Statement(254, {"generate_detailed_report"}, None, None),
       Statement(283, {"main"}, None, None) >>

\* the name evaluate.py imports from answer_evaluator (line 41)
RequiredName == "evaluate_text_answer"

\* evaluate.py's `except ImportError: print(...); sys.exit(1)`
exit_on_import_error(files, nltk_data, names, error) ==
    [kind |-> "exited", status |-> 1, files |-> files, nltk_data |-> nltk_data,
     names |-> names, error |-> error]

\* `from answer_evaluator import evaluate_text_answer`, once the module has
\* executed: the name is looked up in the module, and evaluate.py goes on
\* to `from clip_image_compare import compare_images` and its definitions
import_name(files, nltk_data, names) ==
    IF RequiredName \notin names
    THEN exit_on_import_error(files, nltk_data, names, "ImportError")
    ELSE IF "clip_image_compare.py" \notin files
    THEN exit_on_import_error(files, nltk_data, names, "ModuleNotFoundError")
    ELSE [kind |-> "ready", files |-> files, nltk_data |-> nltk_data, names |-> names]

\* python evaluate.py in a directory holding some of the modules: lines
\* 34-41 reach the import of answer_evaluator
RunEvaluate ==
    /\ startup.kind = "idle"
    /\ \E files \in SUBSET LocalModules, nltk_data \in SUBSET NltkResources :
          startup' = IF "answer_evaluator.py" \notin files
                     THEN exit_on_import_error(files, nltk_data, {}, "ModuleNotFoundError")
                     ELSE [kind |-> "importing", files |-> files, nltk_data |-> nltk_data,
                           pc |-> 1, names |-> {}, downloaded |-> {}]
    /\ UNCHANGED <<args, providers, outcome, bloom, coverage, curve, repeat, batch,
                   single, report, explain, cue, extract>>

\* the import executes the next top-level statement of answer_evaluator.py
ExecuteStatement ==
    /\ startup.kind = "importing"
    /\ startup.pc <= Len(answer_evaluator_statements)
    /\ LET statement == answer_evaluator_statements[startup.pc]
       IN  startup' =
             IF ~IsNone(statement.needs) /\ Get(statement.needs) \notin startup.files
             THEN exit_on_import_error(startup.files, startup.nltk_data, startup.names,
                                       "ModuleNotFoundError")
             ELSE [startup EXCEPT
                     !.pc = @ + 1,
                     !.names = @ \cup statement.binds,
                     !.downloaded = IF ~IsNone(statement.finds)
                                       /\ Get(statement.finds) \notin startup.nltk_data
                                    THEN @ \cup {Get(statement.finds)} ELSE @]
    /\ UNCHANGED <<args, providers, outcome, bloom, coverage, curve, repeat, batch,
                   single, report, explain, cue, extract>>

\* the module has executed: the import statement of evaluate.py completes
FinishImport ==
    /\ startup.kind = "importing"
    /\ startup.pc > Len(answer_evaluator_statements)
    /\ startup' = import_name(startup.files, startup.nltk_data, startup.names)
    /\ UNCHANGED <<args, providers, outcome, bloom, coverage, curve, repeat, batch,
                   single, report, explain, cue, extract>>

\* the process has exited, or goes on to evaluate
DiscardStartup ==
    /\ startup.kind \in {"exited", "ready"}
    /\ startup' = [kind |-> "idle"]
    /\ UNCHANGED <<args, providers, outcome, bloom, coverage, curve, repeat, batch,
                   single, report, explain, cue, extract>>

NextStartup == RunEvaluate \/ ExecuteStatement \/ FinishImport \/ DiscardStartup

SpecStartup == Init /\ [][NextStartup]_vars

(***************************************************************************)
(* Properties of evaluate_answer (checked under Spec)                      *)
(***************************************************************************)
Returned == outcome.kind = "return"
OnTextPath == Returned /\ outcome.path = "text"
Called == outcome.kind # "idle"
BlankAnswer == IsBlank(args.stu_answer)

\* the provider values and the image similarity are in their domains
InDomain ==
    /\ \A f \in {"sem", "bleu", "rouge"} :
          IsNone(providers[f]) \/ (Get(providers[f]) >= -ONE /\ Get(providers[f]) <= ONE)
    /\ IsNone(args.image_score)
       \/ (Get(args.image_score) >= 0 /\ Get(args.image_score) <= ONE)

\* C1: whenever evaluate_answer returns (empty-answer path or text path) for
\* inputs in their domains, raw_score and final_score are in [0,1], and the
\* value the curve is applied to is already clamped to [0,1].
C1_ScoresInUnitInterval ==
    (Returned /\ InDomain) =>
        /\ outcome.value.raw_score >= 0 /\ outcome.value.raw_score <= Quantum
        /\ outcome.value.final_score >= 0 /\ outcome.value.final_score <= Quantum
        /\ outcome.locals.final_score >= 0 /\ outcome.locals.final_score <= ONE

\* a call on the text path whose weighted sum exceeds 1.0 before the clamp
C1_Witness == OnTextPath /\ InDomain /\ outcome.locals.weighted > ONE

\* the weighted sum of the claim, from the values the call worked with
ClaimedSum ==
    (4 * Get(providers.sem)
     + (Get(providers.bleu) + outcome.locals.rouge_score)
     + 3 * outcome.locals.kw_coverage
     - outcome.locals.penalty
     + (IF IsNone(args.image_score) THEN 0 ELSE Get(args.image_score))) \div 10

ClaimedRaw ==
    IF ClaimedSum < 0 THEN 0 ELSE IF ClaimedSum > ONE THEN ONE ELSE ClaimedSum

\* C2: for a non-empty answer, raw_score is
\* clamp(0.4*semantic + 0.2*mean(bleu, rouge_l) + 0.3*coverage - 0.1*penalty
\*       [+ 0.1*image similarity]), the image term being added exactly when an
\* image similarity is supplied.
C2_RawIsClampedWeightedSum ==
    OnTextPath =>
        /\ outcome.locals.final_score = ClaimedRaw
        /\ outcome.value.raw_score = RoundN(ClaimedRaw)

\* a text-path call with a positive image similarity, a penalty, and a sum
\* strictly inside (0,1)
C2_Witness ==
    /\ OnTextPath
    /\ ~IsNone(args.image_score) /\ Get(args.image_score) > 0
    /\ outcome.locals.penalty > 0
    /\ outcome.locals.weighted > 0 /\ outcome.locals.weighted < ONE

\* ordinal(E) - ordinal(C) of the last call, E being the level supplied
LevelDiff == index(Get(args.bloom_gt)) - index(outcome.value.bloom_classified)

\* the penalty rule of the specification, on diff = ordinal(E) - ordinal(C)
ClaimedPenalty(diff) ==
    IF diff = 0 THEN 0
    ELSE IF diff < 0 THEN -Dec(2, 2)
    ELSE IF diff >= 3 THEN Dec(15, 2)
    ELSE Dec(5 * diff, 2)

\* C3: with diff = ordinal(expected) - ordinal(classified), the penalty is 0
\* when diff = 0, min(0.05*diff, 0.15) when diff > 0 (0.15 from three levels
\* short), and -0.02 when diff < 0 however large the overshoot.
C3_LevelPenalty ==
    (OnTextPath /\ ~IsNone(args.bloom_gt)) =>
        /\ outcome.locals.penalty = ClaimedPenalty(LevelDiff)
        /\ outcome.value.bloom_penalty = RoundN(outcome.locals.penalty)

\* expected Remember, classified Create: the largest overshoot
C3_Witness ==
    /\ OnTextPath /\ ~IsNone(args.bloom_gt)
    /\ LevelDiff = -5
    /\ outcome.locals.penalty = -Dec(2, 2)

\* the text metrics of the returned record are all 0.0
TextMetricsZero ==
    /\ outcome.value.semantic_score = 0
    /\ outcome.value.bleu = 0
    /\ outcome.value.rouge_l = 0
    /\ outcome.value.keyword_coverage = 0

\* C4: an empty or whitespace-only answer with no image similarity returns
\* semantic, bleu, rouge_l and coverage 0.0 whatever the keywords, classified
\* Remember, raw_score = final_score = 0.0, and calls no provider and no
\* classifier.
C4_EmptyAnswerNoImage ==
    (Called /\ BlankAnswer /\ IsNone(args.image_score)) =>
        /\ Returned
        /\ TextMetricsZero
        /\ outcome.value.bloom_classified = "Remember"
        /\ outcome.value.raw_score = 0
        /\ outcome.value.final_score = 0
        /\ outcome.called = {}

\* a whitespace-only answer, no image, a non-empty keyword list
C4_Witness ==
    /\ Returned /\ BlankAnswer /\ Len(args.stu_answer) > 0
    /\ IsNone(args.image_score)
    /\ Truthy(args.keywords)

\* f / Quantum is the multiple of 1/Quantum nearest to (n/d)^0.8, n, d >= 1
NearestToPow(f, n, d) ==
    LET rhs == BigMulPow(BigPow(2 * Quantum, CurveDen), n, CurveNum)
    IN  /\ f >= 0
        /\ f = 0 \/ PowAtLeast(f, rhs, d)
        /\ ~PowAtLeast(f + 1, rhs, d)

\* C5: an empty or whitespace-only answer with an image similarity s returns
\* raw_score = 0.1*s and final_score = (0.1*s)^0.8, with penalty 0 and text
\* metrics 0.0, whatever the other arguments.
C5_EmptyAnswerWithImage ==
    (Called /\ BlankAnswer /\ ~IsNone(args.image_score)) =>
        LET s == Get(args.image_score)
        IN  /\ Returned
            /\ 10 * outcome.locals.final_score = s
            /\ outcome.value.raw_score = RoundN(outcome.locals.final_score)
            /\ IF s = 0 THEN outcome.value.final_score = 0
               ELSE NearestToPow(outcome.value.final_score, s, 10 * ONE)
            /\ outcome.value.bloom_penalty = 0
            /\ TextMetricsZero
            /\ outcome.called = {}

\* an empty answer scored from a positive image similarity
C5_Witness ==
    /\ Returned /\ BlankAnswer
    /\ ~IsNone(args.image_score) /\ Get(args.image_score) > 0
    /\ outcome.value.final_score > outcome.value.raw_score

\* C9: with no expected level supplied, the expected level is Understand both
\* in the returned record and in the penalty: the penalty is the one the rule
\* gives for E = Understand against the classified level.
C9_DefaultExpectedLevel ==
    (OnTextPath /\ IsNone(args.bloom_gt)) =>
        /\ outcome.value.bloom_expected = "Understand"
        /\ outcome.locals.penalty =
              ClaimedPenalty(index("Understand") - index(outcome.value.bloom_classified))

\* C10: an expected level outside the six-level enumeration always makes the
\* call fail (with the argument error, when the providers work); it is never
\* accepted, on the text path or on the empty-answer path.
C10_UnknownLevelRaises ==
    (Called /\ ~IsNone(args.bloom_gt) /\ ~InHierarchy(Get(args.bloom_gt))) =>
        /\ outcome.kind = "raise"
        /\ (~IsNone(providers.sem) /\ ~IsNone(providers.bleu)) => outcome.exc = "ValueError"

\* the external libraries that raise in the last call
FailedProviders == {f \in {"sem", "bleu", "rouge"} : IsNone(providers[f])}

\* the expected level is absent or one of the six
KnownLevel == IsNone(args.bloom_gt) \/ InHierarchy(Get(args.bloom_gt))

\* C11: when exactly one of the three similarity providers (embedding, BLEU,
\* ROUGE-L) raises during a call with a non-empty answer, evaluate_answer
\* still returns a record, in which that provider's metric is 0.0.
C11_ProviderFailureAbsorbed ==
    (Called /\ ~BlankAnswer /\ KnownLevel /\ Cardinality(FailedProviders) = 1) =>
        /\ Returned
        /\ IsNone(providers.sem) => outcome.value.semantic_score = 0
        /\ IsNone(providers.bleu) => outcome.value.bleu = 0
        /\ IsNone(providers.rouge) => outcome.value.rouge_l = 0

\* C13: one sentinel coverage for an empty or absent keyword list on every
\* path: for a non-empty answer, the coverage evaluate_answer works with is
\* the value keyword_coverage_score returns for the same text and list.
C13_OneSentinel ==
    (OnTextPath /\ ~Truthy(args.keywords)) =>
        outcome.locals.kw_coverage =
            keyword_coverage_score(args.stu_answer, args.keywords)

(***************************************************************************)
(* Properties of classify_bloom (checked under SpecBloom)                  *)
(***************************************************************************)
Classified == bloom.kind = "return"

\* a level's place in Remember < Understand < ... < Create
Ordinal(level) == index(level)

\* C6: classify_bloom returns the higher of the question level and the answer
\* level when both are defined, the defined one when only one is, Understand
\* when neither is; so the result is never below either level.
C6_HigherOfTheTwo ==
    Classified =>
        LET ql == bloom.question_level
            al == bloom.answer_level
        IN  /\ (~IsNone(ql) /\ ~IsNone(al)) =>
                  /\ bloom.level \in {Get(ql), Get(al)}
                  /\ Ordinal(bloom.level) >= Ordinal(Get(ql))
                  /\ Ordinal(bloom.level) >= Ordinal(Get(al))
            /\ (~IsNone(ql) /\ IsNone(al)) => bloom.level = Get(ql)
            /\ (IsNone(ql) /\ ~IsNone(al)) => bloom.level = Get(al)
            /\ (IsNone(ql) /\ IsNone(al)) => bloom.level = "Understand"

\* the question level is strictly above the answer level, and is returned
C6_Witness ==
    /\ Classified
    /\ ~IsNone(bloom.question_level) /\ ~IsNone(bloom.answer_level)
    /\ Ordinal(Get(bloom.question_level)) > Ordinal(Get(bloom.answer_level))
    /\ bloom.level = Get(bloom.question_level)

\* the tiers, 1 = Remember to 6 = Create, one of whose cues occurs in text
\* between word boundaries
TiersWithCue(cues, text) == {t \in 1..6 : SearchCue(cues[t], text)}

Least(T) == CHOOSE t \in T : \A u \in T : t <= u

\* C7: the question level is the earliest tier, in the order Remember,
\* Understand, Apply, Analyze, Evaluate, Create, one of whose cues occurs in
\* the question; it is undefined when no cue occurs.
C7_QuestionFirstMatch ==
    Classified =>
        LET T == TiersWithCue(question_cues, lower(bloom.question))
        IN  IF T = {} THEN IsNone(bloom.question_level)
            ELSE bloom.question_level = Some(bloom_hierarchy[Least(T)])

\* a question with a Remember cue and an Analyze cue is Remember
C7_Witness ==
    /\ Classified
    /\ {1, 4} \subseteq TiersWithCue(question_cues, lower(bloom.question))
    /\ bloom.question_level = Some("Remember")

\* the tiers of the answer ladder that match the (lower-cased) answer: the
\* Remember tier needs a cue and fewer than 20 words, the others a cue
AnswerTiers(answer) ==
    {t \in TiersWithCue(answer_cues, answer) : t = 1 => WordCount(answer) < 20}

\* C8: the answer level is the first matching tier of the answer ladder, the
\* Remember tier matching only with one of is/are/was/were/means and fewer
\* than 20 words; with no matching tier it is Understand, never undefined.
C8_AnswerLadder ==
    Classified =>
        LET T == AnswerTiers(lower(bloom.answer))
        IN  /\ ~IsNone(bloom.answer_level)
            /\ T = {} => bloom.answer_level = Some("Understand")
            /\ T # {} => bloom.answer_level = Some(bloom_hierarchy[Least(T)])

\* an answer of 20 words or more with a Remember cue falls through to a
\* later tier
C8_Witness ==
    /\ Classified
    /\ WordCount(bloom.answer) >= 20
    /\ SearchCue(answer_cues[1], lower(bloom.answer))
    /\ bloom.answer_level = Some("Evaluate")

(***************************************************************************)
(* classify_bloom on two answers to one question (checked under            *)
(* SpecBloomPair)                                                          *)
(***************************************************************************)
Paired == bloom.kind = "pair"

\* the answer-ladder level of the second answer is strictly above the first's
SecondAnswerHigher ==
    Ordinal(Get(bloom.second.answer_level)) > Ordinal(Get(bloom.first.answer_level))

\* C18: for a fixed question, if answer A's answer-ladder level is strictly
\* higher than answer B's, then classify_bloom(question, A) is at least
\* classify_bloom(question, B) on the six-level order.
C18_HigherAnswerNotLower ==
    (Paired /\ SecondAnswerHigher) =>
        Ordinal(bloom.second.level) >= Ordinal(bloom.first.level)

\* a higher answer level that changes nothing, the question's level being
\* above both
C18_Witness ==
    /\ Paired /\ SecondAnswerHigher
    /\ bloom.second.level = bloom.first.level
    /\ bloom.second.level # Get(bloom.second.answer_level)

Covered == coverage.kind = "return"

\* the list entries whose lower-cased form occurs in the lower-cased text as
\* a contiguous run of characters
MatchedEntries(text, kws) ==
    {i \in 1..Len(kws) :
        \E p \in 1..(Len(text) - Len(kws[i]) + 1) :
            lower(SubSeq(text, p, p + Len(kws[i]) - 1)) = lower(kws[i])}

\* C14: for a non-empty list, keyword_coverage_score is
\* (entries whose lower-cased form is a contiguous substring of the
\* lower-cased text) / (length of the list), counted per entry, and lies in
\* [0,1].  (value is the quotient to the resolution 1/ONE of the model.)
C14_CoverageIsMatchedShare ==
    (Covered /\ Truthy(coverage.reference_keywords)) =>
        LET kws == Get(coverage.reference_keywords)
            m == Cardinality(MatchedEntries(coverage.student_text, kws))
            rest == m * ONE - coverage.value * Len(kws)
        IN  /\ rest >= 0 /\ rest < Len(kws)
            /\ coverage.value >= 0 /\ coverage.value <= ONE

\* 'peripheral' is counted inside 'Peripherals'; 'processor core' is absent
C14_Witness ==
    /\ Covered
    /\ coverage.student_text = "Peripherals use the cache."
    /\ coverage.reference_keywords = Some(<<"processor core", "peripheral">>)
    /\ 2 * coverage.value = ONE

\* C15: for a fixed list, appending a keyword of the list verbatim to the
\* text never decreases keyword_coverage_score.
C15_InjectionMonotone ==
    (Covered /\ ~IsNone(coverage.before)) => coverage.value >= Get(coverage.before)

\* an appended keyword that raised the coverage
C15_Witness ==
    Covered /\ ~IsNone(coverage.before) /\ coverage.value > Get(coverage.before)

\* the first call on the candidate and the keywords of the ARM scenario
ArmScenario ==
    /\ Covered
    /\ coverage.student_text = ArmAnswer
    /\ coverage.reference_keywords = Some(ArmKeywords)
    /\ coverage.injected = 0

\* C20 as stated: in the ARM scenario the coverage is near 6/7 (within 0.01)
C20_NearSixSevenths ==
    ArmScenario => Abs(7 * coverage.value - 6 * ONE) <= 7 * Dec(1, 2)

\* C20: in the ARM scenario all seven keywords are counted, 'peripheral'
\* being a substring of 'peripherals' though not a word of the candidate: the
\* coverage is 7/7 = 1.0.
C20_ArmScenarioFullCoverage ==
    ArmScenario =>
        /\ coverage.value = ONE
        /\ MatchedEntries(ArmAnswer, ArmKeywords) = 1..7
        /\ ~SearchCue({"peripheral"}, lower(ArmAnswer))

C20_Witness == ArmScenario /\ coverage.value > Dec(9, 1)

(***************************************************************************)
(* Properties of the curve (checked under SpecCurve)                       *)
(***************************************************************************)
Curved == curve.kind = "return"

\* a <= b for two values units / ONE - ulps * 2^-53
ValueLeq(a, b) == a.units < b.units \/ (a.units = b.units /\ a.ulps >= b.ulps)

IsZero(a) == a.units = 0 /\ a.ulps = 0
IsOne(a) == a.units = ONE /\ a.ulps = 0
Interior(a) == ~IsZero(a) /\ ~IsOne(a)

\* the reported final_score is the 4-decimal rounding of raw^0.8 (raw in (0,1))
ReportsThePower(p) ==
    IF p.final_score.ulps > 0 THEN p.final = Quantum
    ELSE NearestToPow(p.final, p.final_score.units, ONE)

\* what holds of one application whatever the reading of "greater": the end
\* points, the reported value, reported final_score >= reported raw_score
CurvePoint(p) ==
    /\ IsZero(p.final_score) => p.final = 0
    /\ IsOne(p.final_score) => p.final = Quantum /\ p.curved_ulps = Some(0)
    /\ Interior(p.final_score) => ReportsThePower(p)
    /\ p.final >= p.raw_score

\* curved_score >= raw where the model has the unrounded curved_score; where
\* it has the rounded one only, the rounding interval reaches above raw
NotBelowRaw(p) ==
    IF ~IsNone(p.curved_ulps) THEN Get(p.curved_ulps) <= p.final_score.ulps
    ELSE (2 * p.final + 1) * (ONE \div Quantum) > 2 * p.final_score.units

\* curved_score > raw, likewise
AboveRaw(p) ==
    IF ~IsNone(p.curved_ulps) THEN Get(p.curved_ulps) < p.final_score.ulps
    ELSE (2 * p.final + 1) * (ONE \div Quantum) > 2 * p.final_score.units

\* the later of two applications has the larger result when it has the
\* larger raw score
Monotone(p, q) ==
    ValueLeq(p.final_score, q.final_score) =>
        /\ p.final <= q.final
        /\ (~IsNone(p.curved_ulps) /\ ~IsNone(q.curved_ulps)) =>
               Get(p.curved_ulps) >= Get(q.curved_ulps)

CurvePair ==
    ~IsNone(curve.prev) =>
        /\ Monotone(Get(curve.prev), curve.point)
        /\ Monotone(curve.point, Get(curve.prev))

\* C16 as stated: final_score is the power-0.8 curve of the clamped raw score,
\* 0 at raw 0, 1 at raw 1, strictly greater than raw for every raw in (0,1),
\* non-decreasing in raw, with reported final_score >= reported raw_score.
C16_StrictlyAboveRaw ==
    Curved =>
        /\ CurvePoint(curve.point)
        /\ Interior(curve.point.final_score) => AboveRaw(curve.point)
        /\ CurvePair

\* C16: final_score is the power-0.8 curve of the clamped raw score, 0 at raw
\* 0, 1 at raw 1, never below raw, non-decreasing in raw, with reported
\* final_score >= reported raw_score; it is strictly greater than raw for raw
\* in (0,1) except for the doubles 1 - 2^-53 and 1 - 2^-52, where pow returns
\* raw itself.
C16_NeverBelowRaw ==
    Curved =>
        LET p == curve.point
        IN  /\ CurvePoint(p)
            /\ NotBelowRaw(p)
            /\ (Interior(p.final_score) /\ p.final_score.ulps \notin 1..2) => AboveRaw(p)
            /\ p.final_score.ulps \in 1..2 => p.curved_ulps = Some(p.final_score.ulps)
            /\ CurvePair

\* raw = 1 - 2^-53 is returned unchanged by the curve, after an application
\* to a raw score inside (0,1) whose reported final_score exceeds the
\* reported raw_score
C16_Witness ==
    /\ Curved /\ ~IsNone(curve.prev)
    /\ curve.point.final_score = [units |-> ONE, ulps |-> 1]
    /\ curve.point.curved_ulps = Some(1)
    /\ Interior(Get(curve.prev).final_score)
    /\ Get(curve.prev).final > Get(curve.prev).raw_score

(***************************************************************************)
(* Properties of the batch drivers (checked under SpecBatch)               *)
(***************************************************************************)

\* the driver has returned or raised
BatchEnded == batch.kind \in {"done", "raise"}

\* a metric or the image comparison fails for the question these libraries
\* serve
LibraryFails(lib) ==
    \/ IsNone(lib.sem) \/ IsNone(lib.bleu) \/ IsNone(lib.rouge)
    \/ IsNone(compare_images(lib))

\* the driver returned a record for every question of the answer key, and
\* a summary
BatchCompleted ==
    /\ batch.kind = "done"
    /\ DOMAIN batch.answer_key_data \subseteq DOMAIN batch.results
    /\ ~IsNone(batch.summary)

\* C12: in both drivers a metric or image-comparison failure while scoring
\* one question never aborts the batch: the driver, given two files that
\* hold entries, ends with a record for every question of the answer key
\* and with the summary.
C12_FailureNeverAbortsBatch ==
    (/\ BatchEnded
     /\ DOMAIN batch.student_data # {} /\ DOMAIN batch.answer_key_data # {}
     /\ \E q \in DOMAIN batch.libs : LibraryFails(batch.libs[q]))
    => BatchCompleted

\* the record the driver gives question q when q is evaluated on its own
\* entries, with nothing left over from another question
RecordAlone(q) ==
    IF batch.driver = "evaluate_from_json_files"
    THEN from_json_question(batch.student_data, batch.answer_key_data,
                            batch.libs[q], q, None).result
    ELSE evaluate_question(batch.student_data, batch.answer_key_data, batch.libs[q], q)

\* what question q adds to total_score and to evaluated_questions when
\* evaluated on its own entries
AddedAlone(q) ==
    from_json_question(batch.student_data, batch.answer_key_data, batch.libs[q], q, None).add

CountedAlone(q) ==
    from_json_question(batch.student_data, batch.answer_key_data, batch.libs[q], q, None).counted

\* the totals of the summary are those of the questions taken one by one
TotalsAlone ==
    IF batch.driver = "evaluate_from_json_files"
    THEN LET summary == Get(batch.summary)
             questions == DOMAIN batch.answer_key_data
         IN  /\ summary.total_questions = Cardinality(questions)
             /\ summary.evaluated_questions =
                   SumOver([q \in questions |-> CountedAlone(q)], questions)
             /\ summary.total_achieved_score =
                   SumOver([q \in questions |-> AddedAlone(q)], questions)
             /\ summary.total_possible_score = 100 * summary.evaluated_questions
    ELSE LET summary == Get(batch.summary)
             questions == DOMAIN batch.student_data \cup DOMAIN batch.answer_key_data
             valid == {q \in questions : ~IsNone(RecordAlone(q).FinalScore)}
         IN  /\ summary.total_questions = Cardinality(questions)
             /\ summary.evaluated_questions = Cardinality(valid)
             /\ summary.average_score.sum =
                   SumOver([q \in valid |-> Get(RecordAlone(q).FinalScore)], valid)

ReportsImage(q) ==
    /\ "evaluation_details" \in DOMAIN batch.results[q]
    /\ "image_similarity" \in DOMAIN batch.results[q].evaluation_details
    /\ ~IsNone(batch.results[q].evaluation_details.image_similarity)

\* a scored record of evaluate_from_json_files with no image similarity
ReportsNoImage(q) ==
    /\ "evaluation_details" \in DOMAIN batch.results[q]
    /\ "image_similarity" \in DOMAIN batch.results[q].evaluation_details
    /\ IsNone(batch.results[q].evaluation_details.image_similarity)

ScoredWithImage(q) ==
    LET answer_key_info == batch.answer_key_data[q]
    IN  evaluate_answer(dict_get(answer_key_info, "Question", ""),
                        dict_get(answer_key_info, "Text", ""),
                        dict_get(batch.student_data[q], "Text", ""),
                        Some(dict_get(answer_key_info, "BloomLevel", "Understand")),
                        Some(dict_get(answer_key_info, "Keywords", <<>>)),
                        compare_images(batch.libs[q]), batch.libs[q])

\* C21: in evaluate_from_json_files the similarity of the two images is
\* supplied to scoring: every record whose image_similarity is not null has
\* the raw_score and final_score that evaluate_answer gives with that
\* similarity as image_score (the 0.1 * image_similarity term included, and
\* an empty text answer scored from the image term).
C21_ImageSuppliedToScoring ==
    (batch.kind \in {"running", "done"} /\ batch.driver = "evaluate_from_json_files")
    => \A q \in DOMAIN batch.results :
          ReportsImage(q)
          => /\ batch.results[q].evaluation_details.raw_score = ScoredWithImage(q).value.raw_score
             /\ batch.results[q].evaluation_details.final_score = ScoredWithImage(q).value.final_score


(***************************************************************************)
(* Properties of the start of evaluate.py (checked under SpecStartup)      *)
(***************************************************************************)

\* C22: answer_evaluator.py provides the evaluate_text_answer function that
\* evaluate.py requires at start-up: with the modules of the repository
\* present, loading evaluate.py proceeds to evaluation and does not exit
\* with status 1 on an import error.
C22_StartupProceeds ==
    (startup.kind \in {"exited", "ready"} /\ startup.files = LocalModules)
    => /\ startup.kind = "ready"
       /\ RequiredName \in startup.names


(***************************************************************************)
(* Properties of evaluate_single_question (checked under SpecSingle)       *)
(***************************************************************************)

\* the entry has a text (an image): the value is present and not blank
HasText(entry) == ~IsBlank(dict_get(entry, "Text", ""))

HasImage(entry) == Truthy(dict_find(entry, "Image"))

\* C23: FinalScore is 0.6 * text + 0.4 * image when the answer key has both
\* a text and an image, the text score alone when it has no image, the image
\* score alone when it has no text, 0.0 when it has neither; a component the
\* answer key has and the student lacks counts 0.0; FinalScore is a number
\* in [0, 1], never None.
C23_CombinedScore ==
    single.kind = "returned"
    => LET result == single.result
           key_data == single.key_data
           student_data == single.student_data
           text == Get(result.TextScore)
           image == Get(result.ImageScore)
           final == Get(result.FinalScore)
       IN  /\ ~IsNone(result.FinalScore)
           /\ 0 <= final /\ final <= ONE
           /\ HasText(key_data) /\ HasImage(key_data)
                => 10 * final = TEXT_WEIGHT * text + IMAGE_WEIGHT * image
           /\ HasText(key_data) /\ ~HasImage(key_data) => final = text
           /\ ~HasText(key_data) /\ HasImage(key_data) => final = image
           /\ ~HasText(key_data) /\ ~HasImage(key_data) => final = 0
           /\ HasText(key_data) /\ ~HasText(student_data) => text = 0
           /\ HasImage(key_data) /\ ~HasImage(student_data) => image = 0

\* a question whose text and image are both scored strictly between 0 and
\* 1, the final score falling strictly between the two
C23_Witness ==
    /\ single.kind = "returned"
    /\ HasText(single.key_data) /\ HasImage(single.key_data)
    /\ HasText(single.student_data) /\ HasImage(single.student_data)
    /\ Get(single.result.TextScore) > 0 /\ Get(single.result.TextScore) < ONE
    /\ Get(single.result.ImageScore) > 0 /\ Get(single.result.ImageScore) < ONE
    /\ Get(single.result.FinalScore) > Get(single.result.ImageScore)
    /\ Get(single.result.FinalScore) < Get(single.result.TextScore)


(***************************************************************************)
(* Properties of evaluate (checked under SpecBatch)                        *)
(***************************************************************************)

\* evaluate has returned
EvaluateDone == batch.kind = "done" /\ batch.driver = "evaluate"

\* the ids of either file
AllQuestions == DOMAIN batch.student_data \cup DOMAIN batch.answer_key_data

\* the results that take part in the average
ValidResults == {q \in DOMAIN batch.results : ~IsNone(batch.results[q].FinalScore)}

\* C24: evaluate records exactly one result for every id of the union of
\* student and answer-key ids.  An id with no student entry gets TextScore,
\* ImageScore and FinalScore 0.0 and is part of the average; an id with a
\* student entry and no answer-key entry gets FinalScore None and is not;
\* total_questions is the size of the union and evaluated_questions the
\* number of results whose FinalScore is not None.
C24_OneResultPerQuestion ==
    /\ (batch.kind = "running" /\ batch.driver = "evaluate")
         => /\ DOMAIN batch.results \cap batch.todo = {}
            /\ DOMAIN batch.results \cup batch.todo = AllQuestions
    /\ EvaluateDone
         => /\ DOMAIN batch.results = AllQuestions
            /\ \A q \in AllQuestions :
                  /\ q \notin DOMAIN batch.student_data
                       => /\ batch.results[q].TextScore = Some(0)
                          /\ batch.results[q].ImageScore = Some(0)
                          /\ batch.results[q].FinalScore = Some(0)
                          /\ q \in ValidResults
                  /\ (q \in DOMAIN batch.student_data /\ q \notin DOMAIN batch.answer_key_data)
                       => /\ IsNone(batch.results[q].FinalScore)
                          /\ q \notin ValidResults
            /\ Get(batch.summary).total_questions = Cardinality(AllQuestions)
            /\ Get(batch.summary).evaluated_questions = Cardinality(ValidResults)
            /\ ValidResults # {}
                 => /\ Get(batch.summary).average_score.count = Cardinality(ValidResults)
                    /\ Get(batch.summary).average_score.sum =
                          SumOver([q \in ValidResults |-> Get(batch.results[q].FinalScore)],
                                  ValidResults)

\* evaluate has returned for a question the student left out, a question
\* the answer key lacks
C24_Witness ==
    /\ EvaluateDone
    /\ \E q1, q2 \in AllQuestions :
          /\ q1 \notin DOMAIN batch.student_data
          /\ q2 \notin DOMAIN batch.answer_key_data
    /\ Get(batch.summary).evaluated_questions = Cardinality(AllQuestions) - 1


(***************************************************************************)
(* Properties of generate_full_report (checked under SpecReport)           *)
(***************************************************************************)

\* C25: every results file evaluate can write is rendered by
\* generate_full_report without raising: the run ends with the report
\* written, every record formatted.
C25_ReportNeverRaises ==
    /\ report.kind # "raise"
    /\ report.kind = "written"
         => Len(report.feedback) = Cardinality(DOMAIN report.results.questions)


(***************************************************************************)
(* Properties of the keyword line (checked under SpecExplain)              *)
(***************************************************************************)

\* C26: the line 'Keyword coverage: X/N key terms found' reports X equal to
\* the number of the N expected keywords found in the student text, for
\* every keyword list and every subset of matched keywords.
C26_FoundKeywordsIsCount ==
    explain.kind = "explained"
    => /\ ~IsNone(explain.line)
       /\ Get(explain.line).total_keywords = Len(explain.key_data.Keywords)
       /\ Get(explain.line).found_keywords =
             Cardinality(MatchedEntries(explain.student_text, explain.key_data.Keywords))


(***************************************************************************)
(* Properties of the cue sets (checked under SpecCue)                      *)
(***************************************************************************)

\* C27: every cue listed in a tier's cue set can decide that tier: a
\* question whose only cue is a cue of tier T gets question level T, and an
\* answer whose only cue is a cue of tier T of the answer ladder (short
\* enough for Remember) gets answer level T.  No cue is shadowed by an
\* earlier tier that also lists it.
C27_EveryCueDecidesItsTier ==
    cue.kind = "classified"
    => IF cue.ladder = "question"
       THEN cue.question_level = Some(bloom_hierarchy[cue.tier])
       ELSE cue.answer_level = Some(bloom_hierarchy[cue.tier])


(***************************************************************************)
(* Properties of the summary of evaluate_from_json_files (checked under    *)
(* SpecBatch)                                                              *)
(***************************************************************************)

\* evaluate_from_json_files has returned results and a summary
FromJsonDone ==
    /\ batch.kind = "done"
    /\ batch.driver = "evaluate_from_json_files"
    /\ ~IsNone(batch.summary)

\* the answer-key questions with no student entry, or with a student entry
\* and a non-blank reference answer
CountedQuestions ==
    {q \in DOMAIN batch.answer_key_data :
        \/ q \notin DOMAIN batch.student_data
        \/ ~IsBlank(dict_get(batch.answer_key_data[q], "Text", ""))}

\* the counts and the total of the summary: evaluated_questions counts
\* CountedQuestions, the others are 'N/A', the total is the sum of the
\* counted percentages and lies between 0 and total_possible_score, and only
\* answer-key ids have a result (percentages in tenths of a percent)
SummaryCounts ==
    LET summary == Get(batch.summary)
        results == batch.results
    IN  /\ DOMAIN results = DOMAIN batch.answer_key_data
        /\ \A q \in DOMAIN batch.student_data \ DOMAIN batch.answer_key_data :
              q \notin DOMAIN results
        /\ summary.evaluated_questions = Cardinality(CountedQuestions)
        /\ \A q \in DOMAIN results :
              IF q \in CountedQuestions
              THEN /\ ~IsNone(results[q].percentage_score)
                   /\ q \notin DOMAIN batch.student_data
                        => results[q].percentage_score = Some(0)
              ELSE IsNone(results[q].percentage_score)
        /\ summary.total_achieved_score =
              SumOver([q \in CountedQuestions |-> Get(results[q].percentage_score)],
                      CountedQuestions)
        /\ summary.total_possible_score = 100 * summary.evaluated_questions
        /\ 0 <= summary.total_achieved_score
        /\ summary.total_achieved_score <= 10 * summary.total_possible_score

\* C28 as stated: the counts and the total are as in SummaryCounts, and
\* overall_average is total_achieved_score / evaluated_questions (0 when no
\* question is counted).
C28_AverageIsQuotient ==
    FromJsonDone
    => /\ SummaryCounts
       /\ LET summary == Get(batch.summary)
          IN  IF summary.evaluated_questions = 0
              THEN summary.overall_average = 0
              ELSE summary.overall_average * summary.evaluated_questions
                      = summary.total_achieved_score

\* C28, amended: the counts and the total are as in SummaryCounts, and
\* overall_average is total_achieved_score / evaluated_questions rounded to
\* one decimal place (0 when no question is counted): it is a whole number
\* of tenths no further than half a tenth from the quotient.
C28_AverageIsRoundedQuotient ==
    FromJsonDone
    => /\ SummaryCounts
       /\ LET summary == Get(batch.summary)
              n == summary.evaluated_questions
              off == summary.overall_average * n - summary.total_achieved_score
          IN  IF n = 0
              THEN summary.overall_average = 0
              ELSE /\ 2 * off <= n
                   /\ 2 * off >= 0 - n

\* a summary whose quotient is not a whole number of tenths
C28_Witness ==
    /\ FromJsonDone
    /\ Get(batch.summary).evaluated_questions = 2
    /\ Get(batch.summary).total_achieved_score % 2 = 1


(***************************************************************************)
(* Properties of identify_questions (checked under SpecExtract)            *)
(***************************************************************************)

\* line i of the text is a question marker
IsMarker(i) == ~IsNone(question_match(extract.text_lines[i]))

\* the key the marker at line i opens
KeyAt(i) == "Q" \o Get(question_match(extract.text_lines[i])).number

\* the text of the marker at line i, of the lines up to line upto: what
\* follows the marker on its line, if anything, and the lines after it up to
\* the next marker
BlockText(i, upto) ==
    LET later == {j \in (i + 1)..upto : IsMarker(j)}
        last == IF later = {} THEN upto
                ELSE (CHOOSE j \in later : \A k \in later : j <= k) - 1
        remaining == Get(question_match(extract.text_lines[i])).remaining
    IN  (IF Len(remaining) > 0 THEN <<remaining>> ELSE <<>>)
           \o SubSeq(extract.text_lines, i + 1, last)

\* questions holds, for the markers at the lines in markers, each key that
\* has an occurrence with text, mapped to the newline-joined text of the
\* last such occurrence
HoldsLastOccurrences(questions, markers, upto) ==
    LET with_text == {i \in markers : Len(BlockText(i, upto)) > 0}
    IN  /\ DOMAIN questions = {KeyAt(i) : i \in with_text}
        /\ \A i \in with_text :
              (\A j \in with_text : KeyAt(j) = KeyAt(i) => j <= i)
              => questions[KeyAt(i)] = join_lines(BlockText(i, upto))

\* C29: identify_questions assigns lines to questions by the most recent
\* marker.  While it runs, no question is open before the first marker and
\* the lines so far belong to none; after it, the open question is the one
\* of the latest marker and its text is that marker's text and every line
\* since, and the questions saved are those of the earlier markers.  It
\* returns, for each key, the newline-joined text of the last occurrence of
\* the key that had text; a marker followed by no text adds no entry.
C29_LinesFollowLatestMarker ==
    /\ extract.kind = "running"
       => LET read == extract.next - 1
              markers == {i \in 1..read : IsMarker(i)}
          IN  IF markers = {}
              THEN /\ IsNone(extract.current_question)
                   /\ extract.current_text = <<>>
                   /\ DOMAIN extract.questions = {}
              ELSE LET latest == CHOOSE i \in markers : \A j \in markers : j <= i
                   IN  /\ extract.current_question = Some(KeyAt(latest))
                       /\ extract.current_text = BlockText(latest, read)
                       /\ HoldsLastOccurrences(extract.questions, markers \ {latest}, read)
    /\ (extract.kind = "done" /\ extract.identified)
       => HoldsLastOccurrences(extract.questions,
                               {i \in 1..Len(extract.text_lines) : IsMarker(i)},
                               Len(extract.text_lines))

\* identify_questions has returned for a text that starts with a line before
\* any marker and has a key whose last marker has no text: the key has the
\* text of the occurrence before
C29_Witness ==
    /\ extract.kind = "done" /\ extract.identified
    /\ ~IsMarker(1)
    /\ \E i, j \in 1..Len(extract.text_lines) :
          /\ i < j /\ IsMarker(i) /\ IsMarker(j)
          /\ KeyAt(i) = KeyAt(j)
          /\ Len(BlockText(j, Len(extract.text_lines))) = 0
          /\ KeyAt(i) \in DOMAIN extract.questions
          /\ extract.questions[KeyAt(i)] = join_lines(BlockText(i, Len(extract.text_lines)))


(***************************************************************************)
(* Properties of the loading of the two files (checked under SpecBatch)    *)
(***************************************************************************)

\* evaluate_from_json_files was given a file that is missing, is not JSON
\* or holds an empty object
UnusableFile ==
    /\ batch.kind # "idle"
    /\ batch.driver = "evaluate_from_json_files"
    /\ \/ batch.files.student # "ok"
       \/ batch.files.key # "ok"
       \/ DOMAIN batch.student_data = {}
       \/ DOMAIN batch.answer_key_data = {}

====
